---- MODULE Spec2Model ----
(***************************************************************************)
(* Model of the qstash-manager core: the persisted multi-environment      *)
(* configuration store (ConfigManager), its token resolver, the error      *)
(* taxonomy (parseApiError) and the remote operation executor              *)
(* (QStashClientWrapper.executeWithErrorHandling / executeWithRetry).      *)
(*                                                                         *)
(* JavaScript strings are sequences of one-character strings, so that      *)
(* trim(), toLowerCase() and replace(/\s+/g, '-') are computed and not     *)
(* tabulated.  JavaScript objects are functions from property names to     *)
(* values; a property may be absent or may hold the value undefined.       *)
(***************************************************************************)
EXTENDS Integers, Sequences, FiniteSets, TLC

(***************************************************************************)
(* Strings                                                                 *)
(***************************************************************************)

\* The JavaScript value undefined; no string equals it, since every
\* element of a string is a single character.
undefined == <<"undefined">>

WhitespaceChars == {" ", "\t"}

IsWhitespace(c) == c \in WhitespaceChars

UpperCaseLetters == <<"A", "B", "C", "D", "E", "F", "G", "H", "I", "J", "K", "L", "M", "N", "O", "P", "Q", "R", "S", "T", "U", "V", "W", "X", "Y", "Z">>

LowerCaseLetters == <<"a", "b", "c", "d", "e", "f", "g", "h", "i", "j", "k", "l", "m", "n", "o", "p", "q", "r", "s", "t", "u", "v", "w", "x", "y", "z">>

\* String.prototype.toLowerCase on one character.
LowerChar(c) ==
    IF \E i \in 1..Len(UpperCaseLetters) : UpperCaseLetters[i] = c
    THEN LowerCaseLetters[CHOOSE i \in 1..Len(UpperCaseLetters) : UpperCaseLetters[i] = c]
    ELSE c

ToLowerCase(s) == [i \in 1..Len(s) |-> LowerChar(s[i])]

RECURSIVE TrimStart(_)
TrimStart(s) ==
    IF s = <<>> THEN <<>>
    ELSE IF IsWhitespace(Head(s)) THEN TrimStart(Tail(s))
    ELSE s

RECURSIVE TrimEnd(_)
TrimEnd(s) ==
    IF s = <<>> THEN <<>>
    ELSE IF IsWhitespace(s[Len(s)]) THEN TrimEnd(SubSeq(s, 1, Len(s) - 1))
    ELSE s

\* String.prototype.trim
Trim(s) == TrimEnd(TrimStart(s))

\* s.replace(/\s+/g, '-'): every maximal run of whitespace becomes one hyphen.
RECURSIVE ReplaceWhitespaceRuns(_)
ReplaceWhitespaceRuns(s) ==
    IF s = <<>> THEN <<>>
    ELSE IF IsWhitespace(Head(s))
         THEN <<"-">> \o ReplaceWhitespaceRuns(TrimStart(s))
         ELSE <<Head(s)>> \o ReplaceWhitespaceRuns(Tail(s))

\* Truthiness of a string-or-undefined value: undefined and '' are falsy.
Truthy(v) == v # undefined /\ v # <<>>

\* v?.trim()
OptTrim(v) == IF v = undefined THEN undefined ELSE Trim(v)

\* a ?? b
Coalesce(a, b) == IF a = undefined THEN b ELSE a

\* a || b
OrElse(a, b) == IF Truthy(a) THEN a ELSE b

HasWhitespace(s) == \E i \in 1..Len(s) : IsWhitespace(s[i])

IsBlank(s) == Trim(s) = <<>>

(***************************************************************************)
(* Objects                                                                 *)
(***************************************************************************)

\* obj[key] for an object whose properties hold strings: undefined when absent.
Prop(obj, key) == IF key \in DOMAIN obj THEN obj[key] ELSE undefined

\* { ...a, ...b }
Spread(a, b) ==
    [k \in (DOMAIN a) \cup (DOMAIN b) |-> IF k \in DOMAIN b THEN b[k] ELSE a[k]]

EmptyObject == [k \in {} |-> TRUE]

\* The object's properties that survive JSON.stringify: those whose value
\* is not undefined.
DefinedKeys(obj) == {k \in DOMAIN obj : k = "createdAt" \/ obj[k] # undefined}

DropUndefined(obj) == [k \in DefinedKeys(obj) |-> obj[k]]

(***************************************************************************)
(* The environments mapping.  A JavaScript object keeps its own keys in    *)
(* property order: array-index keys ascending, then the other keys in      *)
(* insertion order.  The mapping is a sequence of [id, env] entries in     *)
(* that order.                                                             *)
(***************************************************************************)

Digits == {"0", "1", "2", "3", "4", "5", "6", "7", "8", "9"}

DigitValue(c) ==
    CASE c = "0" -> 0 [] c = "1" -> 1 [] c = "2" -> 2 [] c = "3" -> 3
      [] c = "4" -> 4 [] c = "5" -> 5 [] c = "6" -> 6 [] c = "7" -> 7
      [] c = "8" -> 8 [] OTHER -> 9

\* A canonical array index: decimal digits without a leading zero.
IsArrayIndex(s) ==
    /\ s # <<>>
    /\ \A i \in 1..Len(s) : s[i] \in Digits
    /\ (Len(s) > 1 => s[1] # "0")

RECURSIVE IndexValue(_)
IndexValue(s) ==
    IF s = <<>> THEN 0
    ELSE 10 * IndexValue(SubSeq(s, 1, Len(s) - 1)) + DigitValue(s[Len(s)])

\* Object.keys(envs)
Keys(envs) == [i \in 1..Len(envs) |-> envs[i].id]

KeySet(envs) == {envs[i].id : i \in 1..Len(envs)}

HasOwn(envs, id) == id \in KeySet(envs)

PositionOf(envs, id) == CHOOSE i \in 1..Len(envs) : envs[i].id = id

OwnValue(envs, id) == envs[PositionOf(envs, id)].env

\* Where a new key lands in property order.
InsertPosition(envs, id) ==
    IF IsArrayIndex(id)
    THEN 1 + Cardinality({i \in 1..Len(envs) :
                 IsArrayIndex(envs[i].id) /\ IndexValue(envs[i].id) < IndexValue(id)})
    ELSE Len(envs) + 1

\* envs[id] = env
SetOwn(envs, id, env) ==
    IF HasOwn(envs, id)
    THEN [envs EXCEPT ![PositionOf(envs, id)] = [id |-> id, env |-> env]]
    ELSE LET p == InsertPosition(envs, id)
         IN  SubSeq(envs, 1, p - 1) \o <<[id |-> id, env |-> env]>>
                 \o SubSeq(envs, p, Len(envs))

\* delete envs[id]
DeleteOwn(envs, id) ==
    IF HasOwn(envs, id)
    THEN LET p == PositionOf(envs, id)
         IN  SubSeq(envs, 1, p - 1) \o SubSeq(envs, p + 1, Len(envs))
    ELSE envs

\* Property names every plain object inherits from Object.prototype; the
\* model carries the one the inputs use.
ConstructorKey == <<"c", "o", "n", "s", "t", "r", "u", "c", "t", "o", "r">>

ObjectPrototypeKeys == {ConstructorKey}

\* Object.name, the name property of the inherited constructor function.
ObjectFunctionName == <<"O", "b", "j", "e", "c", "t">>

\* The inherited member, read as an environment: a function has no own
\* enumerable properties to spread, no token, and a name.
InheritedMember == [name |-> ObjectFunctionName]

\* Truthiness of config.environments[id]: an own entry, or a member
\* inherited from Object.prototype.
LookupTruthy(envs, id) == HasOwn(envs, id) \/ id \in ObjectPrototypeKeys

\* config.environments[id] when it is truthy.
Lookup(envs, id) == IF HasOwn(envs, id) THEN OwnValue(envs, id) ELSE InheritedMember

(***************************************************************************)
(* Config documents                                                        *)
(***************************************************************************)

DEFAULT_PREFERENCES == [colorOutput |-> TRUE, confirmDestructiveActions |-> TRUE]

DEFAULT_CONFIG ==
    [version |-> <<"1">>,
     defaultEnvironment |-> <<>>,
     environments |-> <<>>,
     preferences |-> DEFAULT_PREFERENCES]

\* A default document whose preferences were not filled in.
FreshDefaultConfigWithoutPreferences ==
    [version |-> DEFAULT_CONFIG.version,
     defaultEnvironment |-> DEFAULT_CONFIG.defaultEnvironment,
     environments |-> DEFAULT_CONFIG.environments,
     preferences |-> EmptyObject]

\* The fresh default document load() returns without caching it.
FreshDefaultConfig ==
    [version |-> DEFAULT_CONFIG.version,
     defaultEnvironment |-> DEFAULT_CONFIG.defaultEnvironment,
     environments |-> DEFAULT_CONFIG.environments,
     preferences |-> DEFAULT_PREFERENCES]

\* JSON.stringify of the environments mapping: keys in property order,
\* properties holding undefined left out.
StringifyEnvironments(envs) ==
    [i \in 1..Len(envs) |-> [id |-> envs[i].id, env |-> DropUndefined(envs[i].env)]]

\* JSON.stringify(config, null, 2), as the JSON value the text denotes.
Stringify(config) ==
    [version |-> config.version,
     defaultEnvironment |-> config.defaultEnvironment,
     environments |-> StringifyEnvironments(config.environments),
     preferences |-> config.preferences]

\* JSON.parse of an object's members in text order: each becomes an own
\* property, placed by property order.
RECURSIVE ParseEnvironments(_)
ParseEnvironments(members) ==
    IF members = <<>> THEN <<>>
    ELSE LET last == members[Len(members)]
         IN  SetOwn(ParseEnvironments(SubSeq(members, 1, Len(members) - 1)),
                    last.id, last.env)

\* The normalisation overwriting the stored version with the default one.
NormalizeConfigResettingVersion(parsed) ==
    [version |-> DEFAULT_CONFIG.version,
     defaultEnvironment |-> IF "defaultEnvironment" \in DOMAIN parsed
                            THEN parsed.defaultEnvironment
                            ELSE DEFAULT_CONFIG.defaultEnvironment,
     environments |-> IF "environments" \in DOMAIN parsed
                      THEN ParseEnvironments(parsed.environments)
                      ELSE DEFAULT_CONFIG.environments,
     preferences |-> IF "preferences" \in DOMAIN parsed
                     THEN Spread(DEFAULT_PREFERENCES, parsed.preferences)
                     ELSE DEFAULT_PREFERENCES]

\* The normalisation load() applies to a parsed document.
NormalizeConfig(parsed) ==
    [version |-> IF "version" \in DOMAIN parsed
                 THEN parsed.version ELSE DEFAULT_CONFIG.version,
     defaultEnvironment |-> IF "defaultEnvironment" \in DOMAIN parsed
                            THEN parsed.defaultEnvironment
                            ELSE DEFAULT_CONFIG.defaultEnvironment,
     environments |-> IF "environments" \in DOMAIN parsed
                      THEN ParseEnvironments(parsed.environments)
                      ELSE DEFAULT_CONFIG.environments,
     preferences |-> IF "preferences" \in DOMAIN parsed
                     THEN Spread(DEFAULT_PREFERENCES, parsed.preferences)
                     ELSE DEFAULT_PREFERENCES]

\* The backing file: absent, unparseable, or the text of a JSON value.
AbsentFile == [kind |-> "absent", value |-> EmptyObject]

CorruptFile == [kind |-> "corrupt", value |-> EmptyObject]

JsonFile(value) == [kind |-> "json", value |-> value]

\* load() reading the backing file also when a document is cached.
LoadAlwaysReadingFile(cache, f) ==
    IF f.kind = "json"
    THEN LET normalizedConfig == NormalizeConfig(f.value)
         IN  [config |-> normalizedConfig, cache |-> <<normalizedConfig>>]
    ELSE [config |-> FreshDefaultConfig, cache |-> <<>>]

\* load() keeping in the cache the default document it falls back to.
LoadCachingDefault(cache, f) ==
    IF cache # <<>> THEN [config |-> cache[1], cache |-> cache]
    ELSE IF f.kind = "json"
         THEN LET normalizedConfig == NormalizeConfig(f.value)
              IN  [config |-> normalizedConfig, cache |-> <<normalizedConfig>>]
         ELSE [config |-> FreshDefaultConfig, cache |-> <<FreshDefaultConfig>>]

\* ConfigManager.load: the document returned and the cache it leaves.
Load(cache, f) ==
    IF cache # <<>> THEN [config |-> cache[1], cache |-> cache]
    ELSE IF f.kind = "absent" THEN [config |-> FreshDefaultConfig, cache |-> <<>>]
    ELSE IF f.kind = "json"
         THEN LET normalizedConfig == NormalizeConfig(f.value)
              IN  [config |-> normalizedConfig, cache |-> <<normalizedConfig>>]
         ELSE [config |-> FreshDefaultConfig, cache |-> <<>>]

(***************************************************************************)
(* State                                                                   *)
(***************************************************************************)

VARIABLES
    file,           \* the backing file at configPath
    cachedConfig,   \* ConfigManager.cachedConfig: <<>> for null, else <<doc>>
    saved,          \* <<doc>> while the file holds what the last save(doc) wrote, else <<>>
    op,             \* the call the last step made, with its arguments
    ret             \* what that call returned, or that it threw

storeVars == <<file, cachedConfig, saved, op, ret>>

VARIABLES
    retryOptions,   \* QStashClientWrapper.retryOptions: <<>> for null, else <<options>>
    request,        \* the context and resourceInfo of the executeWithErrorHandling call
    pc,             \* where the call stands: idle, invoking, sleeping, done
    attempt,        \* the loop counter of executeWithRetry
    delay,          \* the delay the next sleep will take
    lastError,      \* executeWithRetry's lastError: <<>> while unassigned
    calls,          \* outcome of each invocation of the operation so far
    sleeps,         \* duration of each sleep so far
    result          \* the OperationResult returned: <<>> until the call returns

execVars == <<retryOptions, request, pc, attempt, delay, lastError, calls, sleeps, result>>

VARIABLES
    configManagerInstance,  \* the module's singleton: <<>> for null, else <<instance>>
    instancesCreated,       \* how many ConfigManager objects have been constructed
    peerCachedConfig        \* cachedConfig of a second ConfigManager on the same configPath

moduleVars == <<configManagerInstance, instancesCreated, peerCachedConfig>>

vars == <<file, cachedConfig, saved, op, ret,
          retryOptions, request, pc, attempt, delay, lastError, calls, sleeps, result,
          configManagerInstance, instancesCreated, peerCachedConfig>>

Returned(fields) == Spread([outcome |-> "returned"], fields)

Threw == [outcome |-> "threw", success |-> FALSE]

\* ConfigManager.save: writeFileSync replaces the file and the cache takes
\* the saved document.  When the write throws, the file is as before and
\* the cache is not assigned; a document obtained from the cache (or cached
\* by the load() of this call) is the cached object itself, so the
\* modifications made before save() are already in it.
SaveFile(config, writeOk) ==
    IF writeOk THEN JsonFile(Stringify(config)) ELSE file

\* save() leaving the cache as load() left it.
SaveCacheNotAssigned(config, loadedCache, writeOk) == loadedCache

SaveCache(config, loadedCache, writeOk) ==
    IF writeOk THEN <<config>>
    ELSE IF loadedCache # <<>> THEN <<config>>
    ELSE loadedCache

\* A call that returns without reaching save(); load() may have cached.
ReturnWithoutSave(loadedCache, value) ==
    /\ cachedConfig' = loadedCache
    /\ ret' = value
    /\ UNCHANGED <<file, saved>>
    /\ UNCHANGED <<execVars, moduleVars>>

\* A call that ends in save(config).
ReturnThroughSave(config, loadedCache, writeOk, value) ==
    /\ file' = SaveFile(config, writeOk)
    /\ cachedConfig' = SaveCache(config, loadedCache, writeOk)
    /\ saved' = IF writeOk THEN <<config>> ELSE saved
    /\ ret' = IF writeOk THEN value ELSE Threw
    /\ UNCHANGED <<execVars, moduleVars>>

(***************************************************************************)
(* ConfigManager operations                                                *)
(***************************************************************************)

\* The id stored with its letters as given.
NormalizeIdKeepingCase(id) == ReplaceWhitespaceRuns(id)

\* The id addEnvironment stores under.
NormalizeId(id) == ReplaceWhitespaceRuns(ToLowerCase(id))

\* addEnvironment making every added environment the default.
AddedConfigAlwaysDefault(config, normalizedId, environment) ==
    [config EXCEPT
        !.environments = SetOwn(config.environments, normalizedId, environment),
        !.defaultEnvironment = normalizedId]

\* The document addEnvironment saves.
AddedConfig(config, normalizedId, environment) ==
    LET environments == SetOwn(config.environments, normalizedId, environment)
    IN  [config EXCEPT
            !.environments = environments,
            !.defaultEnvironment =
                IF Len(environments) = 1 THEN normalizedId ELSE @]

\* createdAt is the reading of new Date() the call takes.
AddEnvironment(id, token, displayName, createdAt, writeOk) ==
    LET normalizedId == NormalizeId(id)
        loaded == Load(cachedConfig, file)
        config == loaded.config
        environment == [token |-> Trim(token),
                        name |-> OrElse(OptTrim(displayName), normalizedId),
                        createdAt |-> createdAt]
    IN  /\ op' = [name |-> "addEnvironment", id |-> id, token |-> token,
                  displayName |-> displayName]
        /\ IF ~Truthy(id) \/ Trim(id) = <<>>
           THEN ReturnWithoutSave(cachedConfig,
                    Returned([success |-> FALSE, error |-> "Environment ID is required"]))
           ELSE IF ~Truthy(token) \/ Trim(token) = <<>>
           THEN ReturnWithoutSave(cachedConfig,
                    Returned([success |-> FALSE, error |-> "Token is required"]))
           ELSE IF LookupTruthy(config.environments, normalizedId)
           THEN ReturnWithoutSave(loaded.cache,
                    Returned([success |-> FALSE, error |-> "already exists"]))
           ELSE ReturnThroughSave(AddedConfig(config, normalizedId, environment),
                    loaded.cache, writeOk,
                    Returned([success |-> TRUE, environment |-> environment]))

\* The environment updateEnvironment stores.
UpdatedEnvironment(existing, updates) ==
    Spread(existing,
           [token |-> Coalesce(OptTrim(updates.token), Prop(existing, "token")),
            name |-> Coalesce(OptTrim(updates.name), Prop(existing, "name"))])

UpdateEnvironment(id, updates, writeOk) ==
    LET loaded == Load(cachedConfig, file)
        config == loaded.config
        existing == Lookup(config.environments, id)
        updated == UpdatedEnvironment(existing, updates)
    IN  /\ op' = [name |-> "updateEnvironment", id |-> id, updates |-> updates]
        /\ IF ~LookupTruthy(config.environments, id)
           THEN ReturnWithoutSave(loaded.cache,
                    Returned([success |-> FALSE, error |-> "does not exist"]))
           ELSE ReturnThroughSave(
                    [config EXCEPT !.environments = SetOwn(@, id, updated)],
                    loaded.cache, writeOk,
                    Returned([success |-> TRUE, environment |-> updated]))

\* removeEnvironment leaving the removed id as the default.
RemovedConfigKeepingDefault(config, id) ==
    [config EXCEPT !.environments = DeleteOwn(config.environments, id)]

\* The document removeEnvironment saves.
RemovedConfig(config, id) ==
    LET environments == DeleteOwn(config.environments, id)
        defaultAffected == config.defaultEnvironment = id
        envKeys == Keys(environments)
    IN  [config EXCEPT
            !.environments = environments,
            !.defaultEnvironment =
                IF defaultAffected
                THEN (IF Len(envKeys) > 0 THEN envKeys[1] ELSE <<>>)
                ELSE @]

RemoveEnvironment(id, writeOk) ==
    LET loaded == Load(cachedConfig, file)
        config == loaded.config
    IN  /\ op' = [name |-> "removeEnvironment", id |-> id]
        /\ IF ~LookupTruthy(config.environments, id)
           THEN ReturnWithoutSave(loaded.cache,
                    Returned([success |-> FALSE, error |-> "does not exist",
                              defaultAffected |-> FALSE]))
           ELSE ReturnThroughSave(RemovedConfig(config, id), loaded.cache, writeOk,
                    Returned([success |-> TRUE,
                              defaultAffected |-> (config.defaultEnvironment = id)]))

SetDefaultEnvironment(id, writeOk) ==
    LET loaded == Load(cachedConfig, file)
        config == loaded.config
    IN  /\ op' = [name |-> "setDefaultEnvironment", id |-> id]
        /\ IF ~LookupTruthy(config.environments, id)
           THEN ReturnWithoutSave(loaded.cache,
                    Returned([success |-> FALSE, error |-> "does not exist"]))
           ELSE ReturnThroughSave([config EXCEPT !.defaultEnvironment = id],
                    loaded.cache, writeOk,
                    Returned([success |-> TRUE,
                              previousDefault |-> config.defaultEnvironment]))

\* updatePreferences merging the updates onto the defaults alone.
UpdatePreferencesFromDefaults(updates, writeOk) ==
    LET loaded == Load(cachedConfig, file)
        config == loaded.config
        preferences == Spread(DEFAULT_PREFERENCES, updates)
    IN  /\ op' = [name |-> "updatePreferences", updates |-> updates]
        /\ ReturnThroughSave([config EXCEPT !.preferences = preferences],
                loaded.cache, writeOk,
                Returned([success |-> TRUE, preferences |-> preferences]))

UpdatePreferences(updates, writeOk) ==
    LET loaded == Load(cachedConfig, file)
        config == loaded.config
        preferences == Spread(Spread(DEFAULT_PREFERENCES, config.preferences), updates)
    IN  /\ op' = [name |-> "updatePreferences", updates |-> updates]
        /\ ReturnThroughSave([config EXCEPT !.preferences = preferences],
                loaded.cache, writeOk,
                Returned([success |-> TRUE, preferences |-> preferences]))

\* The document createConfig builds and saves.
CreatedConfig(environmentId, token, displayName, createdAt) ==
    [version |-> <<"1">>,
     defaultEnvironment |-> environmentId,
     environments |->
        <<[id |-> environmentId,
           env |-> [token |-> Trim(token),
                    name |-> OrElse(OptTrim(displayName), environmentId),
                    createdAt |-> createdAt]]>>,
     preferences |-> DEFAULT_PREFERENCES]

\* createConfig adding its environment to the document already stored.
CreateConfigKeepingDocument(environmentId, token, displayName, createdAt, writeOk) ==
    LET created == CreatedConfig(environmentId, token, displayName, createdAt)
        loaded == Load(cachedConfig, file)
        config == [loaded.config EXCEPT
                      !.defaultEnvironment = environmentId,
                      !.environments = SetOwn(@, environmentId, created.environments[1].env)]
    IN  /\ op' = [name |-> "createConfig", id |-> environmentId, token |-> token,
                  displayName |-> displayName]
        /\ file' = SaveFile(config, writeOk)
        /\ cachedConfig' = IF writeOk THEN <<config>> ELSE cachedConfig
        /\ saved' = IF writeOk THEN <<config>> ELSE saved
        /\ ret' = IF writeOk THEN Returned([success |-> TRUE, config |-> config]) ELSE Threw
        /\ UNCHANGED <<execVars, moduleVars>>

CreateConfig(environmentId, token, displayName, createdAt, writeOk) ==
    LET config == CreatedConfig(environmentId, token, displayName, createdAt)
    IN  /\ op' = [name |-> "createConfig", id |-> environmentId, token |-> token,
                  displayName |-> displayName]
        /\ file' = SaveFile(config, writeOk)
        /\ cachedConfig' = IF writeOk THEN <<config>> ELSE cachedConfig
        /\ saved' = IF writeOk THEN <<config>> ELSE saved
        /\ ret' = IF writeOk THEN Returned([success |-> TRUE, config |-> config]) ELSE Threw
        /\ UNCHANGED <<execVars, moduleVars>>

\* ConfigManager.resolveToken: <<>> for null, else <<result>>.
ResolveTokenValue(options, envToken, config) ==
    IF Truthy(options.cliToken) /\ Truthy(Trim(options.cliToken))
    THEN <<[token |-> Trim(options.cliToken), source |-> "cli"]>>
    ELSE IF Truthy(envToken) /\ Truthy(Trim(envToken))
    THEN <<[token |-> Trim(envToken), source |-> "env"]>>
    ELSE LET envName == OrElse(options.environmentName, config.defaultEnvironment)
         IN  IF Truthy(envName) /\ LookupTruthy(config.environments, envName)
             THEN <<[token |-> Prop(Lookup(config.environments, envName), "token"),
                     source |-> "config",
                     environmentName |-> envName]>>
             ELSE <<>>

\* load() runs only when neither override resolves.
ResolveToken(options, envToken) ==
    LET loaded == Load(cachedConfig, file)
        overridden == \/ Truthy(options.cliToken) /\ Truthy(Trim(options.cliToken))
                      \/ Truthy(envToken) /\ Truthy(Trim(envToken))
    IN  /\ op' = [name |-> "resolveToken", options |-> options, envToken |-> envToken]
        /\ ReturnWithoutSave(IF overridden THEN cachedConfig ELSE loaded.cache,
                Returned([value |-> ResolveTokenValue(options, envToken, loaded.config)]))

\* load() writing the default document out when it finds no usable file.
LoadCallCreatingFile ==
    LET loaded == Load(cachedConfig, file)
    IN  /\ op' = [name |-> "load", fromCache |-> (cachedConfig # <<>>)]
        /\ ret' = Returned([config |-> loaded.config])
        /\ cachedConfig' = loaded.cache
        /\ file' = IF loaded.cache = <<>> THEN JsonFile(Stringify(loaded.config)) ELSE file
        /\ UNCHANGED saved
        /\ UNCHANGED <<execVars, moduleVars>>

LoadCall ==
    LET loaded == Load(cachedConfig, file)
    IN  /\ op' = [name |-> "load", fromCache |-> (cachedConfig # <<>>)]
        /\ ReturnWithoutSave(loaded.cache, Returned([config |-> loaded.config]))

\* ConfigManager.configExists: existsSync(configPath).
ConfigExists ==
    /\ op' = [name |-> "configExists"]
    /\ ReturnWithoutSave(cachedConfig, Returned([value |-> (file.kind # "absent")]))

GetDefaultEnvironment ==
    LET loaded == Load(cachedConfig, file)
    IN  /\ op' = [name |-> "getDefaultEnvironment"]
        /\ ReturnWithoutSave(loaded.cache,
                Returned([value |-> loaded.config.defaultEnvironment]))

\* getEnvironment(id): <<>> for undefined, else <<what the read gives>>.
GetEnvironment(id) ==
    LET loaded == Load(cachedConfig, file)
        envs == loaded.config.environments
    IN  /\ op' = [name |-> "getEnvironment", id |-> id]
        /\ ReturnWithoutSave(loaded.cache,
                Returned([value |-> IF LookupTruthy(envs, id)
                                    THEN <<Lookup(envs, id)>> ELSE <<>>]))

HasEnvironments ==
    LET loaded == Load(cachedConfig, file)
    IN  /\ op' = [name |-> "hasEnvironments"]
        /\ ReturnWithoutSave(loaded.cache,
                Returned([value |-> (Len(Keys(loaded.config.environments)) > 0)]))

GetEnvironmentCount ==
    LET loaded == Load(cachedConfig, file)
    IN  /\ op' = [name |-> "getEnvironmentCount"]
        /\ ReturnWithoutSave(loaded.cache,
                Returned([value |-> Len(Keys(loaded.config.environments))]))

GetPreferences ==
    LET loaded == Load(cachedConfig, file)
    IN  /\ op' = [name |-> "getPreferences"]
        /\ ReturnWithoutSave(loaded.cache,
                Returned([value |-> Spread(DEFAULT_PREFERENCES, loaded.config.preferences)]))

\* save(config) called directly with a document.
SaveCall(config, writeOk) ==
    /\ op' = [name |-> "save", config |-> config]
    /\ file' = SaveFile(config, writeOk)
    /\ cachedConfig' = IF writeOk THEN <<config>> ELSE cachedConfig
    /\ saved' = IF writeOk THEN <<config>> ELSE saved
    /\ ret' = IF writeOk THEN Returned([success |-> TRUE]) ELSE Threw
    /\ UNCHANGED <<execVars, moduleVars>>

ClearCache ==
    /\ op' = [name |-> "clearCache"]
    /\ cachedConfig' = <<>>
    /\ ret' = Returned(EmptyObject)
    /\ UNCHANGED <<file, saved>>
    /\ UNCHANGED <<execVars, moduleVars>>

\* deleteConfig removing the file and leaving the cache as it is.
DeleteConfigKeepingCache(unlinkOk) ==
    /\ op' = [name |-> "deleteConfig"]
    /\ IF file.kind = "absent"
       THEN /\ ret' = Returned([value |-> FALSE])
            /\ UNCHANGED <<file, cachedConfig, saved>>
       ELSE IF unlinkOk
       THEN /\ file' = AbsentFile
            /\ saved' = <<>>
            /\ ret' = Returned([value |-> TRUE])
            /\ UNCHANGED cachedConfig
       ELSE /\ ret' = Returned([value |-> FALSE])
            /\ UNCHANGED <<file, cachedConfig, saved>>
    /\ UNCHANGED <<execVars, moduleVars>>

\* ConfigManager.deleteConfig; unlinkSync may throw, which is caught.
DeleteConfig(unlinkOk) ==
    /\ op' = [name |-> "deleteConfig"]
    /\ IF file.kind = "absent"
       THEN /\ ret' = Returned([value |-> FALSE])
            /\ UNCHANGED <<file, cachedConfig, saved>>
       ELSE IF unlinkOk
       THEN /\ file' = AbsentFile
            /\ cachedConfig' = <<>>
            /\ saved' = <<>>
            /\ ret' = Returned([value |-> TRUE])
       ELSE /\ ret' = Returned([value |-> FALSE])
            /\ UNCHANGED <<file, cachedConfig, saved>>
    /\ UNCHANGED <<execVars, moduleVars>>

\* c.repeat(count)
Repeat(c, count) == [i \in 1..count |-> c]

\* s.slice(begin, end) for 0 <= begin: end is clamped to the length.
SliceFrom(s, begin, end) ==
    SubSeq(s, begin + 1, IF end < Len(s) THEN end ELSE Len(s))

\* s.slice(-count): the last count characters, all of s when it is shorter.
SliceLast(s, count) ==
    SubSeq(s, (IF Len(s) > count THEN Len(s) - count ELSE 0) + 1, Len(s))

\* maskToken revealing a token of exactly ten characters.
MaskTokenBelowTen(token) ==
    IF Len(token) < 10 THEN Repeat("*", Len(token))
    ELSE SliceFrom(token, 0, 6) \o Repeat("*", Len(token) - 10) \o SliceLast(token, 4)

\* ConfigManager.maskToken
MaskToken(token) ==
    IF Len(token) <= 10 THEN Repeat("*", Len(token))
    ELSE SliceFrom(token, 0, 6) \o Repeat("*", Len(token) - 10) \o SliceLast(token, 4)

MaskTokenCall(token) ==
    /\ op' = [name |-> "maskToken", token |-> token]
    /\ ret' = Returned([value |-> MaskToken(token)])
    /\ UNCHANGED <<file, cachedConfig, saved>>
    /\ UNCHANGED <<execVars, moduleVars>>

\* The entry listEnvironments builds for one environment; a field read as
\* undefined from the environment is left out of the entry.
ListEntry(config, id, env, includeToken) ==
    Spread(Spread([id |-> id,
                   name |-> Prop(env, "name"),
                   isDefault |-> (config.defaultEnvironment = id)],
                  IF "createdAt" \in DOMAIN env
                  THEN [createdAt |-> env.createdAt] ELSE EmptyObject),
           IF includeToken
           THEN [maskedToken |-> MaskToken(Prop(env, "token"))] ELSE EmptyObject)

\* The entries in the order of Object.entries(config.environments).
ListEntries(config, includeToken) ==
    [i \in 1..Len(config.environments) |->
        ListEntry(config, config.environments[i].id, config.environments[i].env,
                  includeToken)]

\* The entry placed after the sorted entries that are not later than it.
InsertByCreatedAt(sorted, entry) ==
    LET notLater == Cardinality({i \in 1..Len(sorted) :
                                    sorted[i].createdAt <= entry.createdAt})
    IN  SubSeq(sorted, 1, notLater) \o <<entry>> \o SubSeq(sorted, notLater + 1, Len(sorted))

\* entries.sort((a, b) => time(a) - time(b)) when every entry has a
\* createdAt: the sort is stable.
RECURSIVE SortByCreatedAt(_)
SortByCreatedAt(entries) ==
    IF entries = <<>> THEN <<>>
    ELSE InsertByCreatedAt(SortByCreatedAt(SubSeq(entries, 1, Len(entries) - 1)),
                           entries[Len(entries)])

\* Every arrangement of the entries.
Arrangements(entries) ==
    LET n == Len(entries)
        orders == {f \in [1..n -> 1..n] : \A i, j \in 1..n : f[i] = f[j] => i = j}
    IN  {[i \in 1..n |-> entries[f[i]]] : f \in orders}

\* What the sort may leave: the stable order, or, when some createdAt is
\* undefined, the comparator yields NaN, it is not a consistent comparator
\* and the order is left to the implementation.
SortOutcomes(entries) ==
    IF \A i \in 1..Len(entries) : "createdAt" \in DOMAIN entries[i]
    THEN {SortByCreatedAt(entries)}
    ELSE Arrangements(entries)

\* ConfigManager.listEnvironments; maskToken reads token.length, which
\* throws a TypeError for an environment without a token.
ListEnvironments(includeToken) ==
    LET loaded == Load(cachedConfig, file)
        config == loaded.config
        envs == config.environments
    IN  /\ op' = [name |-> "listEnvironments", includeToken |-> includeToken]
        /\ IF includeToken /\ \E i \in 1..Len(envs) : Prop(envs[i].env, "token") = undefined
           THEN ReturnWithoutSave(loaded.cache, Threw)
           ELSE \E listing \in SortOutcomes(ListEntries(config, includeToken)) :
                    ReturnWithoutSave(loaded.cache, Returned([entries |-> listing]))

(***************************************************************************)
(* A second ConfigManager constructed on the same configPath: the same     *)
(* methods, run against its own cachedConfig and the one backing file.     *)
(***************************************************************************)

PeerReturnWithoutSave(loadedCache, value) ==
    /\ peerCachedConfig' = loadedCache
    /\ ret' = value
    /\ UNCHANGED <<file, saved, cachedConfig>>
    /\ UNCHANGED <<execVars, configManagerInstance, instancesCreated>>

PeerReturnThroughSave(config, loadedCache, writeOk, value) ==
    /\ file' = SaveFile(config, writeOk)
    /\ peerCachedConfig' = SaveCache(config, loadedCache, writeOk)
    /\ saved' = IF writeOk THEN <<config>> ELSE saved
    /\ ret' = IF writeOk THEN value ELSE Threw
    /\ UNCHANGED cachedConfig
    /\ UNCHANGED <<execVars, configManagerInstance, instancesCreated>>

PeerLoadCall ==
    LET loaded == Load(peerCachedConfig, file)
    IN  /\ op' = [name |-> "load", fromCache |-> (peerCachedConfig # <<>>),
                  instance |-> "peer"]
        /\ PeerReturnWithoutSave(loaded.cache, Returned([config |-> loaded.config]))

PeerAddEnvironment(id, token, displayName, createdAt, writeOk) ==
    LET normalizedId == NormalizeId(id)
        loaded == Load(peerCachedConfig, file)
        config == loaded.config
        environment == [token |-> Trim(token),
                        name |-> OrElse(OptTrim(displayName), normalizedId),
                        createdAt |-> createdAt]
    IN  /\ op' = [name |-> "addEnvironment", id |-> id, token |-> token,
                  displayName |-> displayName, instance |-> "peer"]
        /\ IF ~Truthy(id) \/ Trim(id) = <<>>
           THEN PeerReturnWithoutSave(peerCachedConfig,
                    Returned([success |-> FALSE, error |-> "Environment ID is required"]))
           ELSE IF ~Truthy(token) \/ Trim(token) = <<>>
           THEN PeerReturnWithoutSave(peerCachedConfig,
                    Returned([success |-> FALSE, error |-> "Token is required"]))
           ELSE IF LookupTruthy(config.environments, normalizedId)
           THEN PeerReturnWithoutSave(loaded.cache,
                    Returned([success |-> FALSE, error |-> "already exists"]))
           ELSE PeerReturnThroughSave(AddedConfig(config, normalizedId, environment),
                    loaded.cache, writeOk,
                    Returned([success |-> TRUE, environment |-> environment]))

PeerUpdatePreferences(updates, writeOk) ==
    LET loaded == Load(peerCachedConfig, file)
        config == loaded.config
        preferences == Spread(Spread(DEFAULT_PREFERENCES, config.preferences), updates)
    IN  /\ op' = [name |-> "updatePreferences", updates |-> updates, instance |-> "peer"]
        /\ PeerReturnThroughSave([config EXCEPT !.preferences = preferences],
                loaded.cache, writeOk,
                Returned([success |-> TRUE, preferences |-> preferences]))

(***************************************************************************)
(* The module's singleton.  A path is the sequence of its segments; an     *)
(* optional argument is <<>> when left out, else <<value>>.                *)
(***************************************************************************)

HomeDir == <<"home">>

CONFIG_DIR_NAME == ".qstash-manager"

CONFIG_FILE_NAME == "config.json"

\* path.join(dir, name)
Join(dir, name) == Append(dir, name)

\* new ConfigManager(options): the object constructed, the identity-th one.
NewConfigManager(options, identity) ==
    LET given == IF options = <<>> THEN EmptyObject ELSE options[1]
        configDir == IF "configDir" \in DOMAIN given
                     THEN given.configDir ELSE Join(HomeDir, CONFIG_DIR_NAME)
        configPath == IF "configPath" \in DOMAIN given
                      THEN given.configPath ELSE Join(configDir, CONFIG_FILE_NAME)
    IN  [identity |-> identity,
         configDir |-> configDir,
         configPath |-> configPath,
         cachedConfig |-> <<>>]

\* The number of ConfigManager objects a run constructs at most.
MaxInstances == 3

\* getConfigManager keeping the singleton it has whatever the options.
GetConfigManagerIgnoringOptions(options) ==
    /\ op' = [name |-> "getConfigManager", options |-> options]
    /\ IF configManagerInstance = <<>>
       THEN /\ instancesCreated < MaxInstances
            /\ LET instance == NewConfigManager(options, instancesCreated + 1)
               IN  /\ configManagerInstance' = <<instance>>
                   /\ ret' = Returned([instance |-> instance])
            /\ instancesCreated' = instancesCreated + 1
       ELSE /\ ret' = Returned([instance |-> configManagerInstance[1]])
            /\ UNCHANGED moduleVars
    /\ UNCHANGED <<file, cachedConfig, saved, peerCachedConfig>>
    /\ UNCHANGED execVars

\* getConfigManager(options?); an options object, an empty one included, is
\* truthy.
GetConfigManager(options) ==
    /\ op' = [name |-> "getConfigManager", options |-> options]
    /\ IF configManagerInstance = <<>> \/ options # <<>>
       THEN /\ instancesCreated < MaxInstances
            /\ LET instance == NewConfigManager(options, instancesCreated + 1)
               IN  /\ configManagerInstance' = <<instance>>
                   /\ ret' = Returned([instance |-> instance])
            /\ instancesCreated' = instancesCreated + 1
       ELSE /\ ret' = Returned([instance |-> configManagerInstance[1]])
            /\ UNCHANGED moduleVars
    /\ UNCHANGED <<file, cachedConfig, saved, peerCachedConfig>>
    /\ UNCHANGED execVars

ResetConfigManager ==
    /\ op' = [name |-> "resetConfigManager"]
    /\ configManagerInstance' = <<>>
    /\ ret' = Returned(EmptyObject)
    /\ UNCHANGED instancesCreated
    /\ UNCHANGED <<file, cachedConfig, saved, peerCachedConfig>>
    /\ UNCHANGED execVars

(***************************************************************************)
(* Inputs                                                                  *)
(***************************************************************************)

\* Identifiers given to addEnvironment: blank, two spellings of one id, one
\* with whitespace, and an inherited property name.
IdInputs == { <<" ">>, <<"a">>, <<"A">>, <<"B", " ">>, ConstructorKey }

\* Identifiers given to the operations that look an environment up: the
\* stored ones, an unknown one and an inherited property name.
LookupIds == { <<"a">>, <<"b", "-">>, <<"z">>, ConstructorKey }

\* Tokens given to addEnvironment and createConfig.
TokenInputs == { <<" ">>, <<" ", "t">> }

\* Display names given to createConfig.
NameInputs == { undefined, <<" ">>, <<"n", " ">> }

\* The updateEnvironment calls made: a blank token, a token, a name, an
\* unknown id and an inherited property name.
UpdateCalls ==
    { [id |-> <<"a">>, updates |-> [token |-> <<" ">>, name |-> undefined]],
      [id |-> <<"a">>, updates |-> [token |-> <<"v", " ">>, name |-> undefined]],
      [id |-> <<"a">>, updates |-> [token |-> undefined, name |-> <<" ", "n">>]],
      [id |-> <<"z">>, updates |-> [token |-> <<"v", " ">>, name |-> undefined]],
      [id |-> ConstructorKey, updates |-> [token |-> <<"v", " ">>, name |-> undefined]] }

\* Preference updates given to updatePreferences.
PreferenceUpdates == { EmptyObject, [colorOutput |-> FALSE] }

\* Readings of the clock behind new Date().
ClockReadings == {0, 1}

\* Values of the cliToken option and of process.env.QSTASH_TOKEN.
OverrideTokens == { undefined, <<" ">>, <<" ", "c">> }

\* environmentName options of resolveToken.
NameOptions == { undefined, <<"a">>, <<"z">>, ConstructorKey }

ResolveOptions == [cliToken : OverrideTokens, environmentName : NameOptions]

(***************************************************************************)
(* The store on its own: calls through the ConfigManager API, every write  *)
(* succeeding and nothing else touching the backing file.                  *)
(***************************************************************************)

\* The module as loaded: no singleton, no ConfigManager constructed.
ModuleLoaded ==
    /\ configManagerInstance = <<>>
    /\ instancesCreated = 0
    /\ peerCachedConfig = <<>>

ExecIdle ==
    /\ retryOptions = <<>>
    /\ request = EmptyObject
    /\ pc = "idle"
    /\ attempt = 0
    /\ delay = 0
    /\ lastError = <<>>
    /\ calls = <<>>
    /\ sleeps = <<>>
    /\ result = <<>>

Init ==
    /\ file = AbsentFile
    /\ cachedConfig = <<>>
    /\ saved = <<>>
    /\ op = [name |-> "constructor"]
    /\ ret = Returned(EmptyObject)
    /\ ExecIdle
    /\ ModuleLoaded

CallAddEnvironment ==
    \E id \in IdInputs, token \in TokenInputs, createdAt \in ClockReadings :
        AddEnvironment(id, token, undefined, createdAt, TRUE)

CallUpdateEnvironment ==
    \E call \in UpdateCalls : UpdateEnvironment(call.id, call.updates, TRUE)

CallRemoveEnvironment == \E id \in LookupIds : RemoveEnvironment(id, TRUE)

CallSetDefaultEnvironment == \E id \in LookupIds : SetDefaultEnvironment(id, TRUE)

CallUpdatePreferences == \E updates \in PreferenceUpdates : UpdatePreferences(updates, TRUE)

CallCreateConfig ==
    \E token \in TokenInputs, displayName \in NameInputs :
        CreateConfig(<<"a">>, token, displayName, 0, TRUE)

CallResolveToken ==
    \E options \in ResolveOptions, envToken \in OverrideTokens :
        ResolveToken(options, envToken)

CallDeleteConfig == DeleteConfig(TRUE)

Next ==
    \/ CallAddEnvironment
    \/ CallUpdateEnvironment
    \/ CallRemoveEnvironment
    \/ CallSetDefaultEnvironment
    \/ CallUpdatePreferences
    \/ CallCreateConfig
    \/ CallDeleteConfig
    \/ LoadCall
    \/ ClearCache

Spec == Init /\ [][Next]_vars

\* What load() returns in the current state.
CurrentConfig == Load(cachedConfig, file).config

(***************************************************************************)
(* Token resolution over a store: a few mutating calls and every           *)
(* combination of the resolveToken inputs.                                 *)
(***************************************************************************)

ResolveAddEnvironment ==
    \E id \in { <<"a">>, <<"B", " ">> } :
        AddEnvironment(id, <<" ", "t">>, undefined, 0, TRUE)

ResolveNext ==
    \/ ResolveAddEnvironment
    \/ CallUpdateEnvironment
    \/ CallRemoveEnvironment
    \/ CallSetDefaultEnvironment
    \/ CallResolveToken
    \/ ClearCache

SpecResolve == Init /\ [][ResolveNext]_vars

(***************************************************************************)
(* Insertion order: environments added one after another, each stamped     *)
(* with a later reading of the clock than those stored, among them ids     *)
(* that are array indices; removals and changes of the default.            *)
(***************************************************************************)

\* Identifiers added in the ordered runs.
OrderedIds == { <<"a">>, <<"b">>, <<"1">>, <<"2">> }

\* A reading of the clock later than the createdAt of every stored environment.
LaterReading(config) ==
    LET envs == config.environments
        readings == {envs[i].env.createdAt : i \in 1..Len(envs)}
    IN  IF readings = {} THEN 0
        ELSE 1 + CHOOSE r \in readings : \A q \in readings : q <= r

\* The last reading of the clock the ordered runs take.
MaxReading == 4

OrderedAddEnvironment ==
    /\ LaterReading(CurrentConfig) <= MaxReading
    /\ \E id \in OrderedIds :
          AddEnvironment(id, <<"t">>, undefined, LaterReading(CurrentConfig), TRUE)

OrderedRemoveEnvironment ==
    \E id \in OrderedIds \cup { <<"z">> } : RemoveEnvironment(id, TRUE)

OrderedSetDefaultEnvironment ==
    \E id \in OrderedIds : SetDefaultEnvironment(id, TRUE)

OrderNext ==
    \/ OrderedAddEnvironment
    \/ OrderedRemoveEnvironment
    \/ OrderedSetDefaultEnvironment
    \/ ClearCache

SpecOrder == Init /\ [][OrderNext]_vars

(***************************************************************************)
(* Listing: environments added at the same or a later reading of the       *)
(* clock, each named by the caller with its ordinal among the additions,   *)
(* changes of the default, and listEnvironments.                           *)
(***************************************************************************)

\* Identifiers added in the listing runs.
ListIds == { <<"a">>, <<"b">>, <<"1">> }

\* The latest createdAt among the stored environments, 0 when none is stored.
LatestReading(config) ==
    LET envs == config.environments
        readings == {envs[i].env.createdAt : i \in 1..Len(envs)}
    IN  IF readings = {} THEN 0
        ELSE CHOOSE r \in readings : \A q \in readings : q <= r

\* The decimal numeral of a number below ten.
Numeral(n) == <<CHOOSE c \in Digits : DigitValue(c) = n>>

ListAddEnvironment ==
    \E id \in ListIds,
       createdAt \in {LatestReading(CurrentConfig), LatestReading(CurrentConfig) + 1} :
        /\ createdAt <= MaxReading
        /\ AddEnvironment(id, <<"t">>, Numeral(Len(CurrentConfig.environments) + 1),
                          createdAt, TRUE)

ListSetDefaultEnvironment ==
    \E id \in { <<"a">>, <<"1">>, ConstructorKey } : SetDefaultEnvironment(id, TRUE)

CallListEnvironments == \E includeToken \in BOOLEAN : ListEnvironments(includeToken)

ListNext ==
    \/ ListAddEnvironment
    \/ ListSetDefaultEnvironment
    \/ CallListEnvironments
    \/ ClearCache

SpecList == Init /\ [][ListNext]_vars

(***************************************************************************)
(* Masking: maskToken applied to tokens of every length up to that of a    *)
(* 24-character token.                                                     *)
(***************************************************************************)

\* A token of 24 characters, all different.
SampleToken == <<"A", "B", "C", "D", "E", "F", "G", "H", "I", "J", "K", "L", "M", "N", "O", "P", "Q", "R", "S", "T", "U", "V", "W", "X">>

\* The tokens masked: every substring of the sample, the empty one included.
MaskInputs ==
    {SubSeq(SampleToken, i, j) : i \in 1..Len(SampleToken), j \in 0..Len(SampleToken)}

CallMaskToken == \E token \in MaskInputs : MaskTokenCall(token)

MaskNext == CallMaskToken

SpecMask == Init /\ [][MaskNext]_vars

(***************************************************************************)
(* The store with faults: writes that throw, save() called directly, and   *)
(* the backing file rewritten or removed from outside the process.         *)
(***************************************************************************)

\* Complete documents handed to save().
ValidDocuments ==
    { [version |-> <<"2">>,
       defaultEnvironment |-> <<"b">>,
       environments |->
          <<[id |-> <<"1">>,
             env |-> [token |-> <<"x">>, name |-> <<"o", "n", "e">>, createdAt |-> 1]],
            [id |-> <<"b">>,
             env |-> [token |-> <<"y">>, name |-> <<"b">>, createdAt |-> 0]]>>,
       preferences |-> [colorOutput |-> FALSE, confirmDestructiveActions |-> TRUE]],
      [version |-> <<"1">>,
       defaultEnvironment |-> <<>>,
       environments |-> <<>>,
       preferences |-> [colorOutput |-> TRUE, confirmDestructiveActions |-> FALSE]] }

\* What another process may leave in the backing file: garbage, an empty
\* object, or a document without version and with partial preferences.
ExternalFiles ==
    { CorruptFile,
      JsonFile(EmptyObject),
      JsonFile([defaultEnvironment |-> <<"a">>,
                environments |->
                   <<[id |-> <<"a">>,
                      env |-> [token |-> <<"x">>, name |-> <<"a">>, createdAt |-> 0]]>>,
                preferences |-> [colorOutput |-> FALSE]]) }

ExternalWrite(content) ==
    /\ file' = content
    /\ saved' = <<>>
    /\ op' = [name |-> "externalWrite"]
    /\ ret' = Returned(EmptyObject)
    /\ UNCHANGED cachedConfig
    /\ UNCHANGED <<execVars, moduleVars>>

ExternalDelete ==
    /\ file.kind # "absent"
    /\ file' = AbsentFile
    /\ saved' = <<>>
    /\ op' = [name |-> "externalDelete"]
    /\ ret' = Returned(EmptyObject)
    /\ UNCHANGED cachedConfig
    /\ UNCHANGED <<execVars, moduleVars>>

FaultyAddEnvironment ==
    \E id \in { <<"a">>, <<"B", " ">>, <<" ">> }, writeOk \in BOOLEAN :
        AddEnvironment(id, <<" ", "t">>, undefined, 0, writeOk)

FaultyUpdateEnvironment ==
    \E id \in { <<"a">>, <<"z">> }, writeOk \in BOOLEAN :
        UpdateEnvironment(id, [token |-> <<"v", " ">>, name |-> undefined], writeOk)

FaultyRemoveEnvironment ==
    \E id \in { <<"a">>, <<"z">> }, writeOk \in BOOLEAN : RemoveEnvironment(id, writeOk)

FaultySetDefaultEnvironment ==
    \E id \in { <<"b", "-">>, <<"z">> }, writeOk \in BOOLEAN :
        SetDefaultEnvironment(id, writeOk)

FaultyUpdatePreferences ==
    \E writeOk \in BOOLEAN : UpdatePreferences([colorOutput |-> FALSE], writeOk)

FaultySave ==
    \E config \in ValidDocuments, writeOk \in BOOLEAN : SaveCall(config, writeOk)

CallExternalWrite == \E content \in ExternalFiles : ExternalWrite(content)

FaultsNext ==
    \/ FaultyAddEnvironment
    \/ FaultyUpdateEnvironment
    \/ FaultyRemoveEnvironment
    \/ FaultySetDefaultEnvironment
    \/ FaultyUpdatePreferences
    \/ FaultySave
    \/ CallExternalWrite
    \/ ExternalDelete
    \/ LoadCall
    \/ ClearCache

SpecFaults == Init /\ [][FaultsNext]_vars

(***************************************************************************)
(* Reading: every read-only call, on stores that additions and changes of  *)
(* the default have filled and on files written, corrupted or removed from *)
(* outside.                                                                *)
(***************************************************************************)

CallGetEnvironment == \E id \in LookupIds : GetEnvironment(id)

ReadsNext ==
    \/ ResolveAddEnvironment
    \/ CallSetDefaultEnvironment
    \/ CallExternalWrite
    \/ ExternalDelete
    \/ ClearCache
    \/ ConfigExists
    \/ LoadCall
    \/ CallGetEnvironment
    \/ CallListEnvironments
    \/ GetDefaultEnvironment
    \/ HasEnvironments
    \/ GetEnvironmentCount
    \/ GetPreferences
    \/ CallResolveToken

SpecReads == Init /\ [][ReadsNext]_vars

(***************************************************************************)
(* Persistence: every call that writes, with writes that succeed and no    *)
(* other writer of the file; preferences switched off and on.              *)
(***************************************************************************)

PersistPreferenceUpdates ==
    { EmptyObject,
      [colorOutput |-> FALSE],
      [colorOutput |-> TRUE],
      [confirmDestructiveActions |-> FALSE] }

PersistAddEnvironment ==
    \E id \in { <<"a">>, <<"1">> } : AddEnvironment(id, <<"t">>, undefined, 0, TRUE)

PersistUpdatePreferences ==
    \E updates \in PersistPreferenceUpdates : UpdatePreferences(updates, TRUE)

PersistSave == \E config \in ValidDocuments : SaveCall(config, TRUE)

PersistNext ==
    \/ PersistAddEnvironment
    \/ CallUpdateEnvironment
    \/ CallRemoveEnvironment
    \/ CallSetDefaultEnvironment
    \/ PersistUpdatePreferences
    \/ CallCreateConfig
    \/ PersistSave
    \/ LoadCall
    \/ ClearCache

SpecPersist == Init /\ [][PersistNext]_vars

(***************************************************************************)
(* The singleton: getConfigManager with and without options and          *)
(* resetConfigManager, among calls on a ConfigManager.                     *)
(***************************************************************************)

\* The options argument of getConfigManager: left out, empty, a directory,
\* a directory below it, a file path.
ManagerOptions ==
    { <<>>,
      <<EmptyObject>>,
      <<[configDir |-> <<"test">>]>>,
      <<[configDir |-> <<"test", "new">>]>>,
      <<[configPath |-> <<"test", "other.json">>]>> }

CallGetConfigManager == \E options \in ManagerOptions : GetConfigManager(options)

SingletonNext ==
    \/ CallGetConfigManager
    \/ ResetConfigManager
    \/ PersistAddEnvironment
    \/ ClearCache

SpecSingleton == Init /\ [][SingletonNext]_vars

(***************************************************************************)
(* Two instances on one file: loads, additions and preference updates      *)
(* through either; an environment is added through one instance only once  *)
(* both hold a cached document.                                            *)
(***************************************************************************)

InstancesIds == { <<"a">>, <<"b">> }

InstancesAddEnvironment ==
    \E id \in InstancesIds :
        /\ cachedConfig # <<>> /\ peerCachedConfig # <<>>
        /\ AddEnvironment(id, <<"t">>, undefined, 0, TRUE)

InstancesPeerAddEnvironment ==
    \E id \in InstancesIds :
        /\ cachedConfig # <<>> /\ peerCachedConfig # <<>>
        /\ PeerAddEnvironment(id, <<"t">>, undefined, 0, TRUE)

InstancesPeerUpdatePreferences ==
    \E updates \in PreferenceUpdates : PeerUpdatePreferences(updates, TRUE)

InstancesNext ==
    \/ CallCreateConfig
    \/ LoadCall
    \/ PeerLoadCall
    \/ InstancesAddEnvironment
    \/ InstancesPeerAddEnvironment
    \/ CallUpdatePreferences
    \/ InstancesPeerUpdatePreferences
    \/ CallSetDefaultEnvironment

SpecInstances == Init /\ [][InstancesNext]_vars

(***************************************************************************)
(* Error taxonomy (parseApiError)                                          *)
(***************************************************************************)

\* String.prototype.includes
Includes(s, pattern) ==
    \E i \in 0..(Len(s) - Len(pattern)) : SubSeq(s, i + 1, i + Len(pattern)) = pattern

IncludesAny(s, patterns) == \E pattern \in patterns : Includes(s, pattern)

UnauthorizedPatterns == { <<"4", "0", "1">>, <<"u", "n", "a", "u", "t", "h", "o", "r", "i", "z", "e", "d">>, <<"a", "u", "t", "h", "e", "n", "t", "i", "c", "a", "t", "i", "o", "n">> }

NotFoundPatterns == { <<"4", "0", "4">>, <<"n", "o", "t", " ", "f", "o", "u", "n", "d">> }

RateLimitPatterns == { <<"4", "2", "9">>, <<"r", "a", "t", "e", " ", "l", "i", "m", "i", "t">>, <<"t", "o", "o", " ", "m", "a", "n", "y", " ", "r", "e", "q", "u", "e", "s", "t", "s">> }

BadRequestPatterns == { <<"4", "0", "0">>, <<"b", "a", "d", " ", "r", "e", "q", "u", "e", "s", "t">>, <<"i", "n", "v", "a", "l", "i", "d">> }

ServerErrorPatterns == { <<"5", "0", "0">>, <<"5", "0", "2">>, <<"5", "0", "3">>, <<"5", "0", "4">> }

NetworkPatterns ==
    { <<"n", "e", "t", "w", "o", "r", "k">>, <<"e", "c", "o", "n", "n", "r", "e", "f", "u", "s", "e", "d">>, <<"e", "n", "o", "t", "f", "o", "u", "n", "d">>, <<"t", "i", "m", "e", "o", "u", "t">>, <<"e", "t", "i", "m", "e", "d", "o", "u", "t">>, <<"f", "e", "t", "c", "h", " ", "f", "a", "i", "l", "e", "d">> }

IsDigit(c) == c \in Digits

\* message.match(/5\d{2}/): start of the leftmost match, 0 when none.
StatusMatchStart(s) ==
    LET starts == {i \in 1..(Len(s) - 2) :
                      s[i] = "5" /\ IsDigit(s[i + 1]) /\ IsDigit(s[i + 2])}
    IN  IF starts = {} THEN 0 ELSE CHOOSE i \in starts : \A j \in starts : i <= j

\* The statusCode parseApiError gives a server error.
ServerStatusCode(s) ==
    LET start == StatusMatchStart(s)
    IN  IF start = 0 THEN 500 ELSE IndexValue(SubSeq(s, start, start + 2))

\* End of the maximal run of digits that starts at position i.
RECURSIVE DigitRunEnd(_, _)
DigitRunEnd(s, i) ==
    IF i < Len(s) /\ IsDigit(s[i + 1]) THEN DigitRunEnd(s, i + 1) ELSE i

\* message.match(/retry.+?(\d+)/i): the captured digits, <<>> when there is
\* no match.  The lazy .+? takes at least one character after "retry" and
\* stops before the first digit that follows; \d+ then takes the whole run.
RetryMatch(s) ==
    LET word == <<"r", "e", "t", "r", "y">>
        matches == {i \in 1..(Len(s) - 4) :
                       /\ SubSeq(s, i, i + 4) = word
                       /\ \E d \in (i + 6)..Len(s) : IsDigit(s[d])}
    IN  IF matches = {} THEN <<>>
        ELSE LET start == CHOOSE i \in matches : \A j \in matches : i <= j
                 digits == {d \in (start + 6)..Len(s) : IsDigit(s[d])}
                 first == CHOOSE d \in digits : \A e \in digits : d <= e
             IN  SubSeq(s, first, DigitRunEnd(s, first))

\* A context string: the operation's description, and the resource appended
\* to it by handleError when both its type and its id are given.
PlainContext(context) == [context |-> context, resource |-> <<>>]

RetryCheckContext == PlainContext("retry-check")

\* The message of each error class, as its template and what fills it.
QStashAuthError(context) ==
    [code |-> "UNAUTHORIZED", statusCode |-> 401, context |-> context,
     isRetryable |-> FALSE,
     message |-> [text |-> "Authentication failed. Please check your QStash token. You can update it in the config settings or set the QSTASH_TOKEN environment variable."]]

QStashNotFoundError(context) ==
    [code |-> "NOT_FOUND", statusCode |-> 404, context |-> context,
     isRetryable |-> FALSE,
     message |-> [text |-> "{context}: Resource not found. The resource may not exist or has been deleted.",
                  context |-> context]]

QStashRateLimitError(context, retryAfter) ==
    Spread([code |-> "RATE_LIMITED", statusCode |-> 429, context |-> context,
            isRetryable |-> TRUE,
            message |-> IF retryAfter # <<>> /\ IndexValue(retryAfter) # 0
                        THEN [text |-> "Rate limit exceeded. Please wait {retryAfter} seconds before retrying.",
                              retryAfter |-> IndexValue(retryAfter)]
                        ELSE [text |-> "Rate limit exceeded. Please wait a moment and try again."]],
           IF retryAfter # <<>> THEN [retryAfter |-> IndexValue(retryAfter)] ELSE EmptyObject)

QStashBadRequestError(context, message) ==
    [code |-> "BAD_REQUEST", statusCode |-> 400, context |-> context,
     isRetryable |-> FALSE,
     message |-> [text |-> "{context}: {message}", context |-> context, message |-> message]]

QStashServerError(context, statusCode) ==
    [code |-> "SERVER_ERROR", statusCode |-> statusCode, context |-> context,
     isRetryable |-> TRUE,
     message |-> [text |-> "{context}: QStash server error ({statusCode}). Please try again in a few moments. If the issue persists, check the Upstash status page.",
                  context |-> context, statusCode |-> statusCode]]

QStashNetworkError(context) ==
    [code |-> "NETWORK_ERROR", context |-> context, isRetryable |-> TRUE,
     message |-> [text |-> "{context}: Network error. Please check your internet connection and try again.",
                  context |-> context]]

UnknownError(context, message) ==
    [code |-> "UNKNOWN", context |-> context, isRetryable |-> FALSE,
     message |-> [text |-> "{context}: {message}", context |-> context, message |-> message]]

\* Values an operation may throw: an Error with a message, a string, the
\* value undefined, or an error already classified.
ErrorOf(message) == [type |-> "Error", message |-> message]

StringThrown(text) == [type |-> "string", text |-> text]

UndefinedThrown == [type |-> "undefined"]

Classified(qstashError) == [type |-> "QStashError", error |-> qstashError]

\* String(error) for a value that is not an Error.
StringOf(thrown) == IF thrown.type = "string" THEN thrown.text ELSE <<"u", "n", "d", "e", "f", "i", "n", "e", "d">>

\* The message tested for the server patterns before any other.
ParseErrorMessageServerFirst(original, context) ==
    LET message == ToLowerCase(original)
    IN  IF IncludesAny(message, ServerErrorPatterns)
             THEN QStashServerError(context, ServerStatusCode(message))
        ELSE IF IncludesAny(message, UnauthorizedPatterns) THEN QStashAuthError(context)
        ELSE IF IncludesAny(message, NotFoundPatterns) THEN QStashNotFoundError(context)
        ELSE IF IncludesAny(message, RateLimitPatterns)
             THEN QStashRateLimitError(context, RetryMatch(message))
        ELSE IF IncludesAny(message, BadRequestPatterns)
             THEN QStashBadRequestError(context, original)
        ELSE IF IncludesAny(message, NetworkPatterns) THEN QStashNetworkError(context)
        ELSE UnknownError(context, original)

ParseErrorMessage(original, context) ==
    LET message == ToLowerCase(original)
    IN  IF IncludesAny(message, UnauthorizedPatterns) THEN QStashAuthError(context)
        ELSE IF IncludesAny(message, NotFoundPatterns) THEN QStashNotFoundError(context)
        ELSE IF IncludesAny(message, RateLimitPatterns)
             THEN QStashRateLimitError(context, RetryMatch(message))
        ELSE IF IncludesAny(message, BadRequestPatterns)
             THEN QStashBadRequestError(context, original)
        ELSE IF IncludesAny(message, ServerErrorPatterns)
             THEN QStashServerError(context, ServerStatusCode(message))
        ELSE IF IncludesAny(message, NetworkPatterns) THEN QStashNetworkError(context)
        ELSE UnknownError(context, original)

\* parseApiError matching the string form of a value that is not an Error.
ParseApiErrorInspectingStrings(thrown, context) ==
    IF thrown.type = "QStashError" THEN thrown.error
    ELSE IF thrown.type = "Error" THEN ParseErrorMessage(thrown.message, context)
    ELSE ParseErrorMessage(StringOf(thrown), context)

\* parseApiError declining to classify inside the retry loop.
ParseApiErrorBlindInRetryCheck(thrown, context) ==
    IF thrown.type = "QStashError" THEN thrown.error
    ELSE IF thrown.type = "Error" /\ context # [context |-> "retry-check", resource |-> <<>>]
         THEN ParseErrorMessage(thrown.message, context)
    ELSE UnknownError(context, IF thrown.type = "Error" THEN thrown.message
                               ELSE StringOf(thrown))

\* parseApiError giving a classified error the context of this call.
ParseApiErrorRewritingContext(thrown, context) ==
    IF thrown.type = "QStashError" THEN [thrown.error EXCEPT !.context = context]
    ELSE IF thrown.type = "Error" THEN ParseErrorMessage(thrown.message, context)
    ELSE UnknownError(context, StringOf(thrown))

ParseApiError(thrown, context) ==
    IF thrown.type = "QStashError" THEN thrown.error
    ELSE IF thrown.type = "Error" THEN ParseErrorMessage(thrown.message, context)
    ELSE UnknownError(context, StringOf(thrown))

\* QStashError.getUserMessage
GetUserMessage(qstashError) == qstashError.message

(***************************************************************************)
(* The taxonomy on its own: parseApiError applied to thrown values, and    *)
(* applied again to what it returned.                                      *)
(***************************************************************************)

\* Pieces of failure messages: one of each kind's patterns, a piece that
\* matches none, and a retry hint.
MessageFragments ==
    { <<"4", "0", "1">>,
      <<"N", "o", "t", " ", "F", "o", "u", "n", "d">>,
      <<"4", "2", "9">>,
      <<"I", "n", "v", "a", "l", "i", "d">>,
      <<"5", "0", "3">>,
      <<"t", "i", "m", "e", "o", "u", "t">>,
      <<"b", "o", "o", "m">>,
      <<"r", "e", "t", "r", "y", " ", "i", "n", " ", "3", "0">>,
      <<"r", "e", "t", "r", "y", " ", "a", "f", "t", "e", "r", " ", "3", "0", " ",
        "s", "e", "c", "o", "n", "d", "s">> }

\* The messages classified: each piece alone and each two in a row.
ClassifyMessages ==
    MessageFragments
        \cup {a \o <<" ">> \o b : a \in MessageFragments, b \in MessageFragments}

\* The values classified: Errors, thrown strings and the value undefined.
ClassifyInputs ==
    {ErrorOf(message) : message \in ClassifyMessages}
        \cup {StringThrown(text) : text \in ClassifyMessages}
        \cup {UndefinedThrown}

\* The context arguments parseApiError is called with.
ClassifyContexts ==
    { RetryCheckContext,
      PlainContext("Token validation"),
      [context |-> "Deleting schedule", resource |-> <<"schedule", "s1">>] }

ParseApiErrorCall(thrown, context) ==
    /\ op' = [name |-> "parseApiError", error |-> thrown, context |-> context]
    /\ ret' = Returned([error |-> ParseApiError(thrown, context)])
    /\ UNCHANGED <<file, cachedConfig, saved>>
    /\ UNCHANGED <<execVars, moduleVars>>

Classify ==
    \E thrown \in ClassifyInputs, context \in ClassifyContexts :
        ParseApiErrorCall(thrown, context)

\* parseApiError applied to the error the last call returned.
ClassifyAgain ==
    /\ op.name = "parseApiError"
    /\ op.error.type # "QStashError"
    /\ \E context \in ClassifyContexts :
          ParseApiErrorCall(Classified(ret.error), context)

ClassifyNext ==
    \/ Classify
    \/ ClassifyAgain

SpecClassify == Init /\ [][ClassifyNext]_vars

(***************************************************************************)
(* Remote operation executor                                               *)
(***************************************************************************)

DEFAULT_RETRY_OPTIONS ==
    [maxRetries |-> 3, initialDelay |-> 1000, maxDelay |-> 10000, multiplier |-> 2]

\* The retry option of the constructor: false, an object, or left out.
RetryDisabled == [kind |-> "false", options |-> EmptyObject]

RetryDefaulted == [kind |-> "default", options |-> EmptyObject]

RetryObject(options) == [kind |-> "object", options |-> options]

\* The constructor taking retry: false for the default options.
ConfiguredRetryOptionsIgnoringFalse(retry) ==
    IF retry.kind = "object" THEN <<Spread(DEFAULT_RETRY_OPTIONS, retry.options)>>
    ELSE <<DEFAULT_RETRY_OPTIONS>>

\* The constructor's retryOptions: <<>> for null.
ConfiguredRetryOptions(retry) ==
    IF retry.kind = "false" THEN <<>>
    ELSE IF retry.kind = "object" THEN <<Spread(DEFAULT_RETRY_OPTIONS, retry.options)>>
    ELSE <<DEFAULT_RETRY_OPTIONS>>

\* this.retryOptions.<key> ?? DEFAULT_RETRY_OPTIONS.<key>
RetryOption(key) ==
    IF key \in DOMAIN retryOptions[1] THEN retryOptions[1][key] ELSE DEFAULT_RETRY_OPTIONS[key]

Min(a, b) == IF a <= b THEN a ELSE b

\* The delay after a sleep: Math.min(delay * multiplier, maxDelay).
NextDelay(current, multiplier, maxDelay) == Min(current * multiplier, maxDelay)

\* handleError's fullContext.
FullContext(req) ==
    IF /\ "resourceType" \in DOMAIN req.resourceInfo
       /\ "resourceId" \in DOMAIN req.resourceInfo
       /\ req.resourceInfo.resourceType # ""
       /\ req.resourceInfo.resourceId # ""
    THEN [context |-> req.context,
          resource |-> <<req.resourceInfo.resourceType, req.resourceInfo.resourceId>>]
    ELSE PlainContext(req.context)

\* handleError classifying under the bare context, the resource left out.
HandleErrorWithoutResource(thrown, req) == ParseApiError(thrown, PlainContext(req.context))

HandleError(thrown, req) == ParseApiError(thrown, FullContext(req))

\* A success result that leaves the data out.
SuccessResultWithoutData(data) == [outcome |-> "returned", success |-> TRUE]

\* What executeWithErrorHandling returns.
SuccessResult(data) == [outcome |-> "returned", success |-> TRUE, data |-> data]

FailureResult(thrown, req) ==
    [outcome |-> "returned", success |-> FALSE,
     error |-> GetUserMessage(HandleError(thrown, req))]

\* Outcomes of one invocation of the operation.
ReturnedValue(data) == [kind |-> "return", data |-> data]

ThrownValue(thrown) == [kind |-> "throw", thrown |-> thrown]

\* The loop retrying whatever was thrown while budget remains.
ShouldRetryAnyError(thrown, currentAttempt, maxRetries) == currentAttempt < maxRetries

\* Whether the retry loop goes on after the operation threw in this attempt.
ShouldRetry(thrown, currentAttempt, maxRetries) ==
    ~(~ParseApiError(thrown, RetryCheckContext).isRetryable
        \/ currentAttempt >= maxRetries)

\* executeWithErrorHandling is called: executeWithRetry runs up to its
\* first invocation of the operation, or, when the loop is not entered,
\* throws lastError, still undefined, into the catch.
Execute(req) ==
    /\ pc \in {"idle", "done"}
    /\ request' = req
    /\ calls' = <<>>
    /\ sleeps' = <<>>
    /\ lastError' = <<>>
    /\ attempt' = 0
    /\ IF retryOptions = <<>>
       THEN /\ delay' = 0
            /\ pc' = "invoking"
            /\ result' = <<>>
       ELSE /\ delay' = RetryOption("initialDelay")
            /\ IF 0 <= RetryOption("maxRetries")
               THEN /\ pc' = "invoking"
                    /\ result' = <<>>
               ELSE /\ pc' = "done"
                    /\ result' = <<FailureResult(UndefinedThrown, req)>>
    /\ UNCHANGED retryOptions
    /\ UNCHANGED <<storeVars, moduleVars>>

\* The awaited operation settles.
Invoke(outcome) ==
    /\ pc = "invoking"
    /\ calls' = Append(calls, outcome)
    /\ IF outcome.kind = "return"
       THEN /\ pc' = "done"
            /\ result' = <<SuccessResult(outcome.data)>>
            /\ UNCHANGED <<lastError, sleeps>>
       ELSE IF retryOptions = <<>>
       THEN /\ pc' = "done"
            /\ result' = <<FailureResult(outcome.thrown, request)>>
            /\ UNCHANGED <<lastError, sleeps>>
       ELSE /\ lastError' = <<outcome.thrown>>
            /\ IF ShouldRetry(outcome.thrown, attempt, RetryOption("maxRetries"))
               THEN /\ pc' = "sleeping"
                    /\ sleeps' = Append(sleeps, delay)
                    /\ result' = <<>>
               ELSE /\ pc' = "done"
                    /\ result' = <<FailureResult(outcome.thrown, request)>>
                    /\ UNCHANGED sleeps
    /\ UNCHANGED <<retryOptions, request, attempt, delay>>
    /\ UNCHANGED <<storeVars, moduleVars>>

\* A sleep whose timer re-arms with the next delay and never lets the loop
\* go on.
WakeSleepingAgain ==
    /\ pc = "sleeping"
    /\ delay' = NextDelay(delay, RetryOption("multiplier"), RetryOption("maxDelay"))
    /\ UNCHANGED <<attempt, pc, result>>
    /\ UNCHANGED <<retryOptions, request, lastError, calls, sleeps>>
    /\ UNCHANGED <<storeVars, moduleVars>>

\* The sleep ends: the delay grows, the loop counter advances and the loop
\* condition is tested.
Wake ==
    /\ pc = "sleeping"
    /\ delay' = NextDelay(delay, RetryOption("multiplier"), RetryOption("maxDelay"))
    /\ attempt' = attempt + 1
    /\ IF attempt + 1 <= RetryOption("maxRetries")
       THEN /\ pc' = "invoking"
            /\ result' = <<>>
       ELSE /\ pc' = "done"
            /\ result' = <<FailureResult(lastError[1], request)>>
    /\ UNCHANGED <<retryOptions, request, lastError, calls, sleeps>>
    /\ UNCHANGED <<storeVars, moduleVars>>

\* Retry options given to the constructor.
RetryInputs ==
    { RetryDisabled,
      RetryDefaulted,
      RetryObject([maxRetries |-> 0]),
      RetryObject([maxRetries |-> 2, multiplier |-> 3, maxDelay |-> 2500]),
      RetryObject([maxRetries |-> 1, initialDelay |-> 20000]),
      RetryObject([maxRetries |-> 0 - 1]) }

\* Calls of executeWithErrorHandling: context and resourceInfo.
Requests ==
    { [context |-> "Listing URL groups", resourceInfo |-> EmptyObject],
      [context |-> "Deleting schedule",
       resourceInfo |-> [resourceType |-> "schedule", resourceId |-> "s1"]] }

\* Values the operation throws.
ThrownValues ==
    { ErrorOf(<<"4", "0", "1">>),
      ErrorOf(<<"N", "o", "t", " ", "F", "o", "u", "n", "d">>),
      ErrorOf(<<"4", "2", "9", " ", "r", "e", "t", "r", "y", " ", "3", "0">>),
      ErrorOf(<<"5", "0", "3">>),
      ErrorOf(<<"t", "i", "m", "e", "o", "u", "t">>),
      ErrorOf(<<"b", "o", "o", "m">>),
      StringThrown(<<"5", "0", "3">>),
      Classified(QStashServerError(PlainContext("earlier call"), 502)),
      Classified(QStashAuthError(PlainContext("earlier call"))) }

OperationOutcomes ==
    {ReturnedValue("data")} \cup {ThrownValue(thrown) : thrown \in ThrownValues}

ExecInit ==
    /\ file = AbsentFile
    /\ cachedConfig = <<>>
    /\ saved = <<>>
    /\ ret = Returned(EmptyObject)
    /\ \E retry \in RetryInputs :
          /\ op = [name |-> "constructor", retry |-> retry]
          /\ retryOptions = ConfiguredRetryOptions(retry)
    /\ request = EmptyObject
    /\ pc = "idle"
    /\ attempt = 0
    /\ delay = 0
    /\ lastError = <<>>
    /\ calls = <<>>
    /\ sleeps = <<>>
    /\ result = <<>>
    /\ ModuleLoaded

CallExecute == \E req \in Requests : Execute(req)

OperationSettles == \E outcome \in OperationOutcomes : Invoke(outcome)

ExecNext ==
    \/ CallExecute
    \/ OperationSettles
    \/ Wake

SpecExec == ExecInit /\ [][ExecNext]_vars

(***************************************************************************)
(* validateToken: the wrapper's test call, made outside                    *)
(* executeWithErrorHandling.                                               *)
(***************************************************************************)

ValidationContext == PlainContext("Token validation")

\* What validateToken returns.
ValidationResult(outcome) ==
    IF outcome.kind = "return"
    THEN Returned([success |-> TRUE, data |-> TRUE])
    ELSE Returned([success |-> FALSE, data |-> FALSE,
                   error |-> GetUserMessage(ParseApiError(outcome.thrown, ValidationContext))])

\* validateToken is called: client.urlGroups.list() is awaited.
ValidateToken ==
    /\ pc \in {"idle", "done"}
    /\ op' = [name |-> "validateToken", retry |-> op.retry]
    /\ ret' = [outcome |-> "pending"]
    /\ pc' = "validating"
    /\ calls' = <<>>
    /\ sleeps' = <<>>
    /\ result' = <<>>
    /\ UNCHANGED <<retryOptions, request, attempt, delay, lastError>>
    /\ UNCHANGED <<file, cachedConfig, saved, moduleVars>>

\* validateToken awaiting the list call again, as the retry loop would,
\* after a retryable failure.
ValidationSettlesRetrying(outcome) ==
    /\ pc = "validating"
    /\ calls' = Append(calls, outcome)
    /\ IF /\ outcome.kind = "throw"
          /\ retryOptions # <<>>
          /\ ShouldRetry(outcome.thrown, Len(calls), RetryOption("maxRetries"))
       THEN UNCHANGED <<pc, ret, result>>
       ELSE /\ pc' = "done"
            /\ ret' = ValidationResult(outcome)
            /\ result' = <<ValidationResult(outcome)>>
    /\ UNCHANGED <<retryOptions, request, attempt, delay, lastError, sleeps>>
    /\ UNCHANGED <<file, cachedConfig, saved, op, moduleVars>>

\* The awaited list call settles and validateToken returns.
ValidationSettles(outcome) ==
    /\ pc = "validating"
    /\ calls' = Append(calls, outcome)
    /\ pc' = "done"
    /\ ret' = ValidationResult(outcome)
    /\ result' = <<ValidationResult(outcome)>>
    /\ UNCHANGED <<retryOptions, request, attempt, delay, lastError, sleeps>>
    /\ UNCHANGED <<file, cachedConfig, saved, op, moduleVars>>

\* Outcomes of the list call: those of the operations, more failure
\* messages, and values that are not Errors.
ValidationOutcomes ==
    OperationOutcomes
        \cup {ThrownValue(ErrorOf(message)) : message \in MessageFragments}
        \cup {ThrownValue(UndefinedThrown), ThrownValue(StringThrown(<<"4", "0", "1">>))}

ListCallSettles == \E outcome \in ValidationOutcomes : ValidationSettles(outcome)

ValidateNext ==
    \/ ValidateToken
    \/ ListCallSettles

SpecValidate == ExecInit /\ [][ValidateNext]_vars

\* The executor when every awaited promise settles: the operation returns
\* or throws, and the timer of sleep() fires.
SpecExecFair == SpecExec /\ WF_vars(OperationSettles) /\ WF_vars(Wake)

(***************************************************************************)
(* Properties of the executor                                              *)
(***************************************************************************)

RECURSIVE Power(_, _)
Power(base, exponent) == IF exponent = 0 THEN 1 ELSE base * Power(base, exponent - 1)

RetryableKinds == {"RATE_LIMITED", "SERVER_ERROR", "NETWORK_ERROR"}

ThrewRetryable(outcome) ==
    /\ outcome.kind = "throw"
    /\ ParseApiError(outcome.thrown, RetryCheckContext).code \in RetryableKinds

\* The value the final classification is made of: the last one the
\* operation threw, or undefined when it was never invoked.
LastThrown ==
    IF calls = <<>> THEN UndefinedThrown ELSE calls[Len(calls)].thrown

\* C1: with retry enabled and every attempt failing with a retryable error,
\* execute makes maxRetries + 1 attempts and maxRetries sleeps, the k-th
\* sleep lasting initialDelay * multiplier^(k-1) capped at maxDelay, and
\* returns a failure result.
C1_RetrySchedule ==
    (/\ pc = "done"
     /\ retryOptions # <<>>
     /\ RetryOption("maxRetries") >= 0
     /\ \A k \in 1..Len(calls) : ThrewRetryable(calls[k]))
    => /\ Len(calls) = RetryOption("maxRetries") + 1
       /\ Len(sleeps) = RetryOption("maxRetries")
       /\ \A k \in 1..Len(sleeps) :
             sleeps[k] = Min(RetryOption("initialDelay")
                                * Power(RetryOption("multiplier"), k - 1),
                             RetryOption("maxDelay"))
       /\ result # <<>>
       /\ result[1].success = FALSE

\* C2: whatever the operation does and whatever the retry configuration,
\* execute returns {success: true, data} or {success: false, error}, the
\* error being the user message of the classified failure.
C2_AlwaysAResult ==
    pc = "done" =>
        /\ Len(result) = 1
        /\ result[1].outcome = "returned"
        /\ IF result[1].success
           THEN /\ DOMAIN result[1] = {"outcome", "success", "data"}
                /\ calls # <<>>
                /\ calls[Len(calls)] = ReturnedValue(result[1].data)
           ELSE /\ DOMAIN result[1] = {"outcome", "success", "error"}
                /\ result[1].error =
                      ParseApiError(LastThrown, FullContext(request)).message

C2_Witness ==
    /\ pc = "done"
    /\ Len(calls) = 2
    /\ calls[2].kind = "throw"
    /\ calls[2].thrown.type = "string"
    /\ request.resourceInfo # EmptyObject
    /\ result[1].success = FALSE
    /\ result[1].error.context.resource # <<>>

\* C3: in the retry loop a failed attempt is followed by a sleep and
\* another attempt exactly when the failure is of a retryable kind and
\* fewer than maxRetries retries have been made; otherwise the loop ends at
\* once, without a sleep, and the failure itself is classified for the
\* result.
C3_RetryIffRetryable ==
    [][/\ (/\ pc = "invoking"
           /\ retryOptions # <<>>
           /\ Len(calls') = Len(calls) + 1
           /\ calls'[Len(calls')].kind = "throw")
          => LET thrown == calls'[Len(calls')].thrown
                 kind == ParseApiError(thrown, RetryCheckContext).code
             IN  /\ (pc' = "sleeping") <=>
                       (kind \in RetryableKinds /\ Len(sleeps) < RetryOption("maxRetries"))
                 /\ pc' = "sleeping" => Len(sleeps') = Len(sleeps) + 1
                 /\ pc' # "sleeping" =>
                       /\ pc' = "done"
                       /\ sleeps' = sleeps
                       /\ result' = <<[outcome |-> "returned", success |-> FALSE,
                                       error |-> ParseApiError(thrown, FullContext(request)).message]>>
       /\ pc = "sleeping" => (pc' = "invoking" /\ calls' = calls)
       /\ (pc = "done" /\ pc' = "done") => calls' = <<>>]_vars

C3_Witness ==
    /\ pc = "done"
    /\ Len(calls) = 2
    /\ ThrewRetryable(calls[1])
    /\ calls[2].kind = "throw"
    /\ ~ThrewRetryable(calls[2])
    /\ Len(sleeps) = 1
    /\ Len(sleeps) < RetryOption("maxRetries")
    /\ result[1].success = FALSE

\* C21: whatever the retry configuration, every sleep between two attempts
\* lasts at most maxDelay.
C21_SleepsWithinMaxDelay ==
    retryOptions # <<>> =>
        \A k \in 1..Len(sleeps) : sleeps[k] <= RetryOption("maxDelay")

\* C22: with retry: false a finished call has invoked the operation exactly
\* once and never slept, and a thrown value of any kind is returned as a
\* failure result.
C22_DisabledRetryInvokesOnce ==
    op.retry = RetryDisabled =>
        /\ sleeps = <<>>
        /\ pc # "sleeping"
        /\ Len(calls) <= 1
        /\ pc = "done" =>
              /\ Len(calls) = 1
              /\ calls[1].kind = "throw" =>
                    result = <<[outcome |-> "returned", success |-> FALSE,
                                error |-> ParseApiError(calls[1].thrown,
                                                        FullContext(request)).message]>>

C22_Witness ==
    /\ op.retry = RetryDisabled
    /\ pc = "done"
    /\ Len(calls) = 1
    /\ ThrewRetryable(calls[1])
    /\ sleeps = <<>>
    /\ result[1].success = FALSE

\* The attempts are failures of retryable kinds followed by one attempt
\* that returned.
SucceededAfterRetryableFailures(attempts) ==
    /\ attempts # <<>>
    /\ attempts[Len(attempts)].kind = "return"
    /\ \A k \in 1..(Len(attempts) - 1) : ThrewRetryable(attempts[k])

\* C27: when the operation fails with retryable errors j times, j at most
\* maxRetries, and then returns, the call is finished with the success
\* result carrying the returned value, after j + 1 invocations and j
\* sleeps; and a finished call makes no further invocation.
C27_SuccessAfterFailures ==
    [][/\ (retryOptions # <<>> /\ SucceededAfterRetryableFailures(calls')) =>
             /\ pc' = "done"
             /\ result' = <<[outcome |-> "returned", success |-> TRUE,
                             data |-> calls'[Len(calls')].data]>>
             /\ Len(sleeps') = Len(calls') - 1
             /\ Len(calls') - 1 <= RetryOption("maxRetries")
       /\ (pc = "done" /\ calls' # <<>>) => calls' = calls]_vars

C27_Witness ==
    /\ pc = "done"
    /\ retryOptions # <<>>
    /\ Len(calls) = 3
    /\ SucceededAfterRetryableFailures(calls)
    /\ Len(sleeps) = 2
    /\ result[1].success
    /\ result[1].data = calls[3].data

\* C35: a call that has returned a failure result has invoked the
\* operation at least once, whatever the retry configuration.
C35_InvokedBeforeFailure ==
    (pc = "done" /\ ~result[1].success) => calls # <<>>

\* C38: a call in progress eventually returns a result; and a retry loop
\* that has made an attempt ends on a success, on a failure that is not
\* retryable, or with maxRetries + 1 attempts made.
C38_Termination ==
    /\ (pc \in {"invoking", "sleeping"}) ~> (pc = "done" /\ Len(result) = 1)
    /\ [](( pc = "done" /\ retryOptions # <<>> /\ calls # <<>>) =>
            \/ result[1].success /\ calls[Len(calls)].kind = "return"
            \/ ~result[1].success /\ ~ThrewRetryable(calls[Len(calls)])
            \/ ~result[1].success /\ Len(calls) = RetryOption("maxRetries") + 1)

C38_Witness ==
    /\ pc = "done"
    /\ retryOptions # <<>>
    /\ RetryOption("maxRetries") = 2
    /\ Len(calls) = 3
    /\ Len(sleeps) = 2
    /\ \A k \in 1..3 : ThrewRetryable(calls[k])
    /\ ~result[1].success

\* C39: validateToken makes its remote call once and never sleeps,
\* whatever the retry configuration and the failure; it returns
\* {success: true, data: true} when the call returns and {success: false,
\* data: false, error} with the user message of the classified failure when
\* it throws, and never throws itself.
C39_ValidateTokenOnce ==
    op.name = "validateToken" =>
        /\ Len(calls) <= 1
        /\ sleeps = <<>>
        /\ pc = "validating" => calls = <<>>
        /\ pc = "done" =>
              /\ Len(calls) = 1
              /\ ret.outcome = "returned"
              /\ IF calls[1].kind = "return"
                 THEN ret = [outcome |-> "returned", success |-> TRUE, data |-> TRUE]
                 ELSE ret = [outcome |-> "returned", success |-> FALSE, data |-> FALSE,
                             error |-> ParseApiError(calls[1].thrown,
                                                     PlainContext("Token validation")).message]

C39_Witness ==
    /\ op.name = "validateToken"
    /\ op.retry = RetryDefaulted
    /\ pc = "done"
    /\ Len(calls) = 1
    /\ ThrewRetryable(calls[1])
    /\ ret.success = FALSE
    /\ ret.data = FALSE
    /\ ret.error.text = "{context}: QStash server error ({statusCode}). Please try again in a few moments. If the issue persists, check the Upstash status page."

(***************************************************************************)
(* Properties of the config store                                          *)
(***************************************************************************)

Succeeded(r) == r.outcome = "returned" /\ r.success

NonBlank(v) == v # undefined /\ Trim(v) # <<>>

\* The result the priority rule prescribes: cli, then env, then the stored
\* environment named by the option or else by the document default.
PrescribedResolution(options, envToken, config) ==
    IF NonBlank(options.cliToken)
    THEN <<[token |-> Trim(options.cliToken), source |-> "cli"]>>
    ELSE IF NonBlank(envToken)
    THEN <<[token |-> Trim(envToken), source |-> "env"]>>
    ELSE LET selected == IF Truthy(options.environmentName)
                         THEN options.environmentName
                         ELSE config.defaultEnvironment
         IN  IF HasOwn(config.environments, selected)
             THEN <<[token |-> Prop(OwnValue(config.environments, selected), "token"),
                     source |-> "config",
                     environmentName |-> selected]>>
             ELSE <<>>

\* C4: resolveToken returns the first source that resolves, in the order
\* cli, env, stored environment (by name, else the default), and null when
\* none resolves.
C4_PriorityOrder ==
    op.name = "resolveToken" =>
        ret.value = PrescribedResolution(op.options, op.envToken, CurrentConfig)

\* C5: after any sequence of store operations, a result of resolveToken
\* never carries an empty or whitespace-only token.
C5_NeverBlankToken ==
    (op.name = "resolveToken" /\ ret.value # <<>>) =>
        (ret.value[1].token = undefined \/ Trim(ret.value[1].token) # <<>>)

\* C6: the default is the empty string or the key of a stored environment,
\* and it is the empty string whenever no environment is stored.
C6_DefaultIsKeyOrEmpty ==
    LET config == CurrentConfig
    IN  /\ \/ config.defaultEnvironment = <<>>
           \/ HasOwn(config.environments, config.defaultEnvironment)
        /\ config.environments = <<>> => config.defaultEnvironment = <<>>

MutatingCalls ==
    { "addEnvironment", "updateEnvironment", "removeEnvironment",
      "setDefaultEnvironment", "updatePreferences" }

\* C7: a mutating call either succeeds with the change persisted, or fails
\* and leaves the document in memory and the backing file as they were.
C7_AllOrNothing ==
    [][op'.name \in MutatingCalls =>
          IF Succeeded(ret')
          THEN file' = JsonFile(Stringify(CurrentConfig'))
          ELSE file' = file /\ CurrentConfig' = CurrentConfig]_vars

\* A document complete in the sense of the Config type: every environment
\* has its token, name and createdAt.
IsCompleteConfig(config) ==
    \A i \in 1..Len(config.environments) :
        LET env == config.environments[i].env
        IN  /\ DOMAIN env = {"token", "name", "createdAt"}
            /\ env.token # undefined
            /\ env.name # undefined

\* C8: a load() that reads the file written by save(doc), the cache having
\* been cleared, returns a document equal to doc.
C8_RoundTrip ==
    [][(op'.name = "load" /\ cachedConfig = <<>> /\ saved # <<>>
            /\ IsCompleteConfig(saved[1]))
          => (ret'.outcome = "returned" /\ ret'.config = saved[1])]_vars

C8_Witness ==
    /\ op.name = "load"
    /\ ~op.fromCache
    /\ saved # <<>>
    /\ ret.config = saved[1]
    /\ ret.config.version = <<"2">>
    /\ Len(ret.config.environments) = 2

NormalizedDefault ==
    [version |-> <<"1">>,
     defaultEnvironment |-> <<>>,
     environments |-> <<>>,
     preferences |-> [colorOutput |-> TRUE, confirmDestructiveActions |-> TRUE]]

\* C9 as stated: whenever the backing file is absent or unparseable, load()
\* returns the normalized default document.
C9_DefaultWheneverFileUnreadable ==
    [][(op'.name = "load" /\ file.kind \in {"absent", "corrupt"})
          => (ret'.outcome = "returned" /\ ret'.config = NormalizedDefault)]_vars

\* C9 amended: load() never raises, and when no document is cached and the
\* backing file is absent or unparseable it returns the normalized default
\* document.
C9_DefaultWhenUncachedFileUnreadable ==
    [][op'.name = "load" =>
          /\ ret'.outcome = "returned"
          /\ (cachedConfig = <<>> /\ file.kind \in {"absent", "corrupt"})
                => ret'.config = NormalizedDefault]_vars

C9_Witness ==
    /\ op.name = "load"
    /\ ~op.fromCache
    /\ file.kind = "corrupt"
    /\ ret.outcome = "returned"
    /\ ret.config = NormalizedDefault

\* C10: a successful addEnvironment makes the added environment the default
\* exactly when the store held none before; otherwise the default stays.
C10_FirstBecomesDefault ==
    [][(op'.name = "addEnvironment" /\ Succeeded(ret')) =>
          LET before == CurrentConfig
              after == CurrentConfig'
              added == KeySet(after.environments) \ KeySet(before.environments)
          IN  /\ Cardinality(added) = 1
              /\ IF before.environments = <<>>
                 THEN after.defaultEnvironment \in added
                 ELSE /\ after.defaultEnvironment = before.defaultEnvironment
                      /\ after.defaultEnvironment \notin added]_vars

C10_Witness ==
    /\ op.name = "addEnvironment"
    /\ Succeeded(ret)
    /\ Len(CurrentConfig.environments) = 2
    /\ CurrentConfig.defaultEnvironment = <<"a">>
    /\ op.id = <<"B", " ">>

\* The stored environment added first among those of the mapping: the one
\* with the earliest createdAt, <<>> when the mapping is empty.
FirstInserted(envs) ==
    IF envs = <<>> THEN <<>>
    ELSE envs[CHOOSE i \in 1..Len(envs) :
                 \A j \in 1..Len(envs) : envs[i].env.createdAt <= envs[j].env.createdAt].id

RemovedTheDefault ==
    /\ op'.name = "removeEnvironment"
    /\ Succeeded(ret')
    /\ CurrentConfig.defaultEnvironment = op'.id

\* C11 as stated: removing the current default deletes the entry, reports
\* defaultAffected, and makes the default the remaining environment that
\* was inserted first, or the empty string when none remains.
C11_DefaultMovesToFirstInserted ==
    [][RemovedTheDefault =>
          /\ ~HasOwn(CurrentConfig'.environments, op'.id)
          /\ ret'.defaultAffected
          /\ CurrentConfig'.defaultEnvironment =
                 FirstInserted(CurrentConfig'.environments)]_vars

\* C11 amended: removing the current default deletes the entry and nothing
\* else, reports defaultAffected, and makes the default the first remaining
\* key in property order (array-index keys ascending, then the other keys
\* in insertion order), or the empty string when none remains.
C11_DefaultMovesToFirstKey ==
    [][RemovedTheDefault =>
          LET before == CurrentConfig
              after == CurrentConfig'
          IN  /\ after.environments = DeleteOwn(before.environments, op'.id)
              /\ ~HasOwn(after.environments, op'.id)
              /\ ret'.defaultAffected
              /\ after.defaultEnvironment =
                     (IF after.environments = <<>> THEN <<>>
                      ELSE Keys(after.environments)[1])]_vars

C11_Witness ==
    /\ op.name = "removeEnvironment"
    /\ Succeeded(ret)
    /\ ret.defaultAffected
    /\ Len(CurrentConfig.environments) = 2
    /\ CurrentConfig.defaultEnvironment = <<"1">>
    /\ FirstInserted(CurrentConfig.environments) = <<"b">>

\* C12: addEnvironment with an id whose normal form (lowercase, each run of
\* whitespace replaced by a hyphen) is already a key fails with 'already
\* exists' and leaves that environment and the default as they were.
C12_DuplicateRejected ==
    [][(/\ op'.name = "addEnvironment"
        /\ ~IsBlank(op'.id)
        /\ ~IsBlank(op'.token)
        /\ HasOwn(CurrentConfig.environments, ReplaceWhitespaceRuns(ToLowerCase(op'.id))))
          => LET key == ReplaceWhitespaceRuns(ToLowerCase(op'.id))
                 before == CurrentConfig
                 after == CurrentConfig'
             IN  /\ ret' = Returned([success |-> FALSE, error |-> "already exists"])
                 /\ HasOwn(after.environments, key)
                 /\ OwnValue(after.environments, key) = OwnValue(before.environments, key)
                 /\ after.defaultEnvironment = before.defaultEnvironment]_vars

C12_Witness ==
    /\ op.name = "addEnvironment"
    /\ op.id = <<"A">>
    /\ ret = Returned([success |-> FALSE, error |-> "already exists"])
    /\ HasOwn(CurrentConfig.environments, <<"a">>)
    /\ ~HasOwn(CurrentConfig.environments, <<"A">>)

\* C13: every stored environment has an id that is lowercase and free of
\* whitespace, and a token that is non-empty and free of whitespace.
C13_EnvironmentInvariant ==
    \A i \in 1..Len(CurrentConfig.environments) :
        LET id == CurrentConfig.environments[i].id
            token == Prop(CurrentConfig.environments[i].env, "token")
        IN  /\ id = ToLowerCase(id)
            /\ ~HasWhitespace(id)
            /\ token # undefined
            /\ token # <<>>
            /\ ~HasWhitespace(token)

\* The environment with the fields the updates provide overwritten by
\* their trimmed values, and its other fields kept.
Overwritten(existing, updates) ==
    [k \in DOMAIN existing |->
        IF k \in {"token", "name"} /\ updates[k] # undefined
        THEN Trim(updates[k])
        ELSE existing[k]]

\* C17: updateEnvironment fails with 'does not exist', changing nothing,
\* when the id is not a key; when it succeeds, the id is a key, only the
\* provided fields of that environment are overwritten, and the other
\* environments, the keys, the default and the preferences are unchanged.
C17_UpdateFrame ==
    [][op'.name = "updateEnvironment" =>
          LET before == CurrentConfig
              after == CurrentConfig'
              id == op'.id
          IN  /\ ~HasOwn(before.environments, id) =>
                    /\ ret' = Returned([success |-> FALSE, error |-> "does not exist"])
                    /\ after = before
              /\ Succeeded(ret') =>
                    /\ HasOwn(before.environments, id)
                    /\ after = [before EXCEPT !.environments =
                                   SetOwn(@, id, Overwritten(OwnValue(@, id), op'.updates))]
                    /\ Keys(after.environments) = Keys(before.environments)]_vars

\* C18: setDefaultEnvironment fails, leaving the default as it was, when
\* the id is not a key; otherwise it makes the id the default and reports
\* as previousDefault the default of just before the call.
C18_SetDefault ==
    [][op'.name = "setDefaultEnvironment" =>
          LET before == CurrentConfig
              after == CurrentConfig'
          IN  IF HasOwn(before.environments, op'.id)
              THEN /\ Succeeded(ret')
                   /\ after.defaultEnvironment = op'.id
                   /\ ret'.previousDefault = before.defaultEnvironment
              ELSE /\ ret' = Returned([success |-> FALSE, error |-> "does not exist"])
                   /\ after.defaultEnvironment = before.defaultEnvironment]_vars

\* C19: while a document is cached, load() returns it and does not read the
\* backing file, whatever the file holds by then; with the cache cleared,
\* load() reads the file and returns what the file holds now.
C19_CacheProtocol ==
    [][op'.name = "load" =>
          IF cachedConfig # <<>>
          THEN /\ ret'.config = cachedConfig[1]
               /\ cachedConfig' = cachedConfig
          ELSE /\ file.kind = "json" =>
                    /\ cachedConfig' = <<ret'.config>>
                    /\ "defaultEnvironment" \in DOMAIN file.value =>
                          ret'.config.defaultEnvironment = file.value.defaultEnvironment
                    /\ "environments" \in DOMAIN file.value =>
                          StringifyEnvironments(ret'.config.environments)
                              = file.value.environments
                    /\ "environments" \notin DOMAIN file.value =>
                          ret'.config.environments = <<>>
               /\ file.kind # "json" => ret'.config.environments = <<>>]_vars

\* A load() answered from the cache while the file holds another document.
C19_Witness ==
    /\ op.name = "load"
    /\ op.fromCache
    /\ cachedConfig = <<ret.config>>
    /\ file.kind = "json"
    /\ "environments" \in DOMAIN file.value
    /\ StringifyEnvironments(ret.config.environments) # file.value.environments

\* C20: the mask has the length of the token; for a token longer than ten
\* characters it shows the first six and the last four and has '*' in
\* between; for a token of at most ten characters it is all '*'.
C20_MaskPreservesLength ==
    op.name = "maskToken" =>
        LET token == op.token
            n == Len(token)
            mask == ret.value
        IN  /\ Len(mask) = n
            /\ IF n > 10
               THEN /\ \A i \in 1..6 : mask[i] = token[i]
                    /\ \A i \in 7..(n - 4) : mask[i] = "*"
                    /\ \A i \in (n - 3)..n : mask[i] = token[i]
               ELSE \A i \in 1..n : mask[i] = "*"

C20_Witness ==
    /\ op.name = "maskToken"
    /\ op.token = SampleToken
    /\ Len(ret.value) = 24
    /\ ret.value[6] = "F"
    /\ ret.value[7] = "*"
    /\ ret.value[20] = "*"
    /\ ret.value[21] = "U"

\* C23: when neither override resolves and the caller names an environment
\* that is not stored, resolveToken returns null, also when the document
\* has a default that is stored.
C23_NamedEnvironmentMissing ==
    (/\ op.name = "resolveToken"
     /\ ~NonBlank(op.options.cliToken)
     /\ ~NonBlank(op.envToken)
     /\ Truthy(op.options.environmentName)
     /\ ~HasOwn(CurrentConfig.environments, op.options.environmentName))
        => ret.value = <<>>

\* The place of an entry's environment among the additions: the ordinal the
\* caller named it with.
InsertionRank(entry) == IndexValue(entry.name)

\* C24: listEnvironments returns one entry per stored environment, in
\* ascending order of createdAt with ties in insertion order; an entry is
\* the default exactly when its id is defaultEnvironment; and when at least
\* one environment is stored exactly one entry is the default.
C24_ListSortedOneDefault ==
    (op.name = "listEnvironments" /\ ret.outcome = "returned") =>
        LET entries == ret.entries
            config == CurrentConfig
            n == Len(entries)
        IN  /\ n = Len(config.environments)
            /\ {entries[i].id : i \in 1..n} = KeySet(config.environments)
            /\ \A i, j \in 1..n : i < j =>
                  \/ entries[i].createdAt < entries[j].createdAt
                  \/ /\ entries[i].createdAt = entries[j].createdAt
                     /\ InsertionRank(entries[i]) < InsertionRank(entries[j])
            /\ \A i \in 1..n :
                  entries[i].isDefault <=> (entries[i].id = config.defaultEnvironment)
            /\ n > 0 => Cardinality({i \in 1..n : entries[i].isDefault}) = 1

\* C25: updatePreferences(partial) sets the supplied keys, keeps every other
\* preference at its current value, returns the merged preferences, leaves
\* environments and defaultEnvironment as they were, and the merged
\* preferences are what a load() reads from the file once the cache is
\* cleared.
C25_UpdatePreferencesFrame ==
    [][(op'.name = "updatePreferences" /\ ret'.outcome = "returned") =>
         LET before == CurrentConfig
             after == CurrentConfig'
             updates == op'.updates
         IN  /\ DOMAIN after.preferences = DOMAIN DEFAULT_PREFERENCES
             /\ \A k \in DOMAIN after.preferences :
                   after.preferences[k] =
                      IF k \in DOMAIN updates THEN updates[k]
                      ELSE before.preferences[k]
             /\ ret'.preferences = after.preferences
             /\ Load(<<>>, file').config.preferences = after.preferences
             /\ after.environments = before.environments
             /\ after.defaultEnvironment = before.defaultEnvironment]_vars

C25_Witness ==
    /\ op.name = "updatePreferences"
    /\ op.updates = [confirmDestructiveActions |-> FALSE]
    /\ ret.outcome = "returned"
    /\ ret.preferences = [colorOutput |-> FALSE, confirmDestructiveActions |-> FALSE]
    /\ Load(<<>>, file).config.preferences = ret.preferences
    /\ CurrentConfig.environments # <<>>

\* The calls that end in a write of the document.
WritingCalls ==
    { "save", "addEnvironment", "updateEnvironment", "removeEnvironment",
      "setDefaultEnvironment", "updatePreferences", "createConfig" }

\* C28: with writes that succeed and no other writer, right after a
\* successful save, addEnvironment, updateEnvironment, removeEnvironment,
\* setDefaultEnvironment, updatePreferences or createConfig a document is
\* cached and the file holds that document: read and normalized, the file
\* gives the cached document (up to properties holding undefined, which
\* JSON cannot hold).
C28_PersistImmediately ==
    (op.name \in WritingCalls /\ ret.outcome = "returned" /\ ret.success) =>
        /\ cachedConfig # <<>>
        /\ file.kind = "json"
        /\ Stringify(NormalizeConfig(file.value)) = Stringify(cachedConfig[1])

C28_Witness ==
    /\ op.name = "removeEnvironment"
    /\ ret.outcome = "returned"
    /\ ret.success
    /\ cachedConfig # <<>>
    /\ Len(cachedConfig[1].environments) = 1
    /\ file = JsonFile(Stringify(cachedConfig[1]))
    /\ cachedConfig[1].preferences.colorOutput = FALSE

\* C26: getConfigManager() without options returns the singleton it has,
\* constructing nothing, as long as there is one; a call with options
\* constructs a new instance from them, which becomes the singleton and is
\* returned; after resetConfigManager() there is no singleton and the next
\* call constructs one.  Every call returns the singleton it leaves.
C26_SingletonProtocol ==
    [][/\ op'.name = "getConfigManager" =>
            /\ configManagerInstance' = <<ret'.instance>>
            /\ (op'.options = <<>> /\ configManagerInstance # <<>>) =>
                   /\ ret'.instance = configManagerInstance[1]
                   /\ instancesCreated' = instancesCreated
            /\ (op'.options # <<>> \/ configManagerInstance = <<>>) =>
                   /\ ret'.instance = NewConfigManager(op'.options, ret'.instance.identity)
                   /\ ret'.instance.identity > instancesCreated
                   /\ instancesCreated' = ret'.instance.identity
       /\ op'.name = "resetConfigManager" => configManagerInstance' = <<>>
       /\ op'.name \notin {"getConfigManager", "resetConfigManager"} =>
            configManagerInstance' = configManagerInstance]_vars

\* An option-less call has returned the instance an earlier call with
\* options constructed, the second one the run constructed.
C26_Witness ==
    /\ op.name = "getConfigManager"
    /\ op.options = <<>>
    /\ ret.instance.identity = 2
    /\ ret.instance.configDir = <<"test", "new">>
    /\ ret.instance.configPath = <<"test", "new", "config.json">>
    /\ instancesCreated = 2
    /\ configManagerInstance = <<ret.instance>>

\* C29: removeEnvironment of a stored environment that is not the default
\* succeeds with defaultAffected false, deletes that entry and leaves the
\* default and every other environment as they were; removeEnvironment of
\* an id that is not stored fails with defaultAffected false and changes
\* neither the document nor the file.
C29_RemoveFrame ==
    [][op'.name = "removeEnvironment" =>
          LET before == CurrentConfig
              after == CurrentConfig'
              id == op'.id
          IN  /\ (HasOwn(before.environments, id) /\ before.defaultEnvironment # id) =>
                    /\ Succeeded(ret')
                    /\ ret'.defaultAffected = FALSE
                    /\ after.defaultEnvironment = before.defaultEnvironment
                    /\ after.environments = DeleteOwn(before.environments, id)
              /\ ~HasOwn(before.environments, id) =>
                    /\ ret'.outcome = "returned"
                    /\ ret'.success = FALSE
                    /\ ret'.defaultAffected = FALSE
                    /\ after = before
                    /\ file' = file]_vars

\* The calls validation is to reject on the document given: addEnvironment
\* with a blank id, a blank token or an id whose normalized form is stored;
\* updateEnvironment, removeEnvironment and setDefaultEnvironment with an
\* id that is not stored.
ToBeRejected(call, config) ==
    \/ /\ call.name = "addEnvironment"
       /\ \/ IsBlank(call.id)
          \/ IsBlank(call.token)
          \/ HasOwn(config.environments, ReplaceWhitespaceRuns(ToLowerCase(call.id)))
    \/ /\ call.name \in {"updateEnvironment", "removeEnvironment", "setDefaultEnvironment"}
       /\ ~HasOwn(config.environments, call.id)

\* C30: a call validation is to reject returns success false with an error
\* message, leaves the backing file as it was (absent if it was absent) and
\* leaves the document in memory as it was.
C30_RejectedChangesNothing ==
    [][ToBeRejected(op', CurrentConfig) =>
          /\ ret'.outcome = "returned"
          /\ ret'.success = FALSE
          /\ "error" \in DOMAIN ret'
          /\ file' = file
          /\ CurrentConfig' = CurrentConfig
          /\ cachedConfig # <<>> => cachedConfig' = cachedConfig]_vars

\* A document holding the one environment createConfig was given and
\* nothing of an earlier document.
IsFreshlyCreated(config, call) ==
    /\ config.version = <<"1">>
    /\ config.defaultEnvironment = call.id
    /\ Keys(config.environments) = <<call.id>>
    /\ config.environments[1].env.token = Trim(call.token)
    /\ config.preferences = [colorOutput |-> TRUE, confirmDestructiveActions |-> TRUE]

\* C32: after createConfig(id, token, name?) the cached document and the
\* document read from the file both hold exactly one environment, keyed id
\* with the trimmed token, which is the default, with version '1' and the
\* default preferences, whatever was stored before.
C32_CreateConfigReplaces ==
    [][(op'.name = "createConfig" /\ ret'.outcome = "returned") =>
          /\ cachedConfig' # <<>>
          /\ IsFreshlyCreated(cachedConfig'[1], op')
          /\ IsFreshlyCreated(Load(<<>>, file').config, op')
          /\ ret'.config = cachedConfig'[1]]_vars

C32_Witness ==
    /\ op.name = "createConfig"
    /\ op.token = <<" ", "t">>
    /\ ret.outcome = "returned"
    /\ Keys(ret.config.environments) = << <<"a">> >>
    /\ ret.config.environments[1].env.token = <<"t">>
    /\ cachedConfig = <<ret.config>>
    /\ file = JsonFile(Stringify(ret.config))

\* C33: deleteConfig() returns false and leaves file and cache as they are
\* when the file is absent; when it removes the file it returns true and
\* clears the cache, and the load() that follows returns the normalized
\* default document.
C33_DeleteConfig ==
    [][/\ op'.name = "deleteConfig" =>
            IF file.kind = "absent"
            THEN /\ ret' = Returned([value |-> FALSE])
                 /\ file' = file
                 /\ cachedConfig' = cachedConfig
            ELSE file' = AbsentFile =>
                    /\ ret' = Returned([value |-> TRUE])
                    /\ cachedConfig' = <<>>
       /\ (op.name = "deleteConfig" /\ ret.value /\ op'.name = "load") =>
            ret' = Returned([config |-> NormalizedDefault])]_vars

\* The file has just been removed by deleteConfig and a load() would now
\* give the default document.
C33_Witness ==
    /\ op.name = "deleteConfig"
    /\ ret.value
    /\ file = AbsentFile
    /\ cachedConfig = <<>>
    /\ Load(cachedConfig, file).config = NormalizedDefault

\* A successful mutating call made through the instance named.
MutatingCallThrough(call, returned, instance) ==
    /\ call.name \in MutatingCalls
    /\ Succeeded(returned)
    /\ (IF "instance" \in DOMAIN call THEN "peer" ELSE "own") = instance

\* C34: with two instances on one backing file, each holding a cached
\* document, an environment successfully added through one of them is
\* still in the file after a successful mutating call made next through
\* the other (a call other than the removal of that environment).
C34_NoLostUpdate ==
    [][\A first, second \in {"own", "peer"} :
          (/\ first # second
           /\ op.name = "addEnvironment"
           /\ MutatingCallThrough(op, ret, first)
           /\ cachedConfig # <<>>
           /\ peerCachedConfig # <<>>
           /\ MutatingCallThrough(op', ret', second)
           /\ op'.name # "removeEnvironment")
             => HasOwn(Load(<<>>, file').config.environments,
                       ReplaceWhitespaceRuns(ToLowerCase(op.id)))]_vars

ReadOnlyCalls ==
    { "configExists", "load", "getEnvironment", "listEnvironments",
      "getDefaultEnvironment", "hasEnvironments", "getEnvironmentCount",
      "getPreferences", "resolveToken" }

\* C36: a read-only call leaves the backing file exactly as it was, absent
\* if it was absent and corrupt if it was corrupt, and leaves the
\* environments and the default of the store as they were.
C36_ReadsChangeNothing ==
    [][op'.name \in ReadOnlyCalls =>
          /\ file' = file
          /\ CurrentConfig'.environments = CurrentConfig.environments
          /\ CurrentConfig'.defaultEnvironment = CurrentConfig.defaultEnvironment
          /\ cachedConfig # <<>> => cachedConfig' = cachedConfig]_vars

\* A getEnvironment of an id that is not stored has returned, the file
\* being corrupt and nothing stored.
C36_Witness ==
    /\ op.name = "getEnvironment"
    /\ op.id = <<"z">>
    /\ ret.value = <<>>
    /\ file = CorruptFile
    /\ cachedConfig = <<>>
    /\ CurrentConfig.environments = <<>>

\* C37: a load() with the cache empty reads the file: with no file or an
\* unparseable one it returns the default document and the cache stays
\* empty, with a parseable one it returns and caches the normalized
\* content, so a valid file written from outside after a load() that gave
\* the default is what the next load() returns; and a step fills an empty
\* cache only when a file was there to parse or a write has succeeded.
C37_DefaultNotCached ==
    [][/\ (op'.name = "load" /\ cachedConfig = <<>>) =>
            IF file.kind = "json"
            THEN /\ ret'.config = NormalizeConfig(file.value)
                 /\ cachedConfig' = <<ret'.config>>
            ELSE /\ ret'.config = NormalizedDefault
                 /\ cachedConfig' = <<>>
       /\ (cachedConfig = <<>> /\ cachedConfig' # <<>>) =>
            \/ file.kind = "json"
            \/ file' = JsonFile(Stringify(cachedConfig'[1]))]_vars

\* A load() has read and cached a document that was written from outside.
C37_Witness ==
    /\ op.name = "load"
    /\ ~op.fromCache
    /\ saved = <<>>
    /\ file.kind = "json"
    /\ "version" \notin DOMAIN file.value
    /\ ret.config.defaultEnvironment = <<"a">>
    /\ cachedConfig = <<ret.config>>

(***************************************************************************)
(* Properties of the error taxonomy                                        *)
(***************************************************************************)

\* The kinds in priority order, each with the patterns that select it.
KindPriority ==
    << [code |-> "UNAUTHORIZED", patterns |-> UnauthorizedPatterns],
       [code |-> "NOT_FOUND", patterns |-> NotFoundPatterns],
       [code |-> "RATE_LIMITED", patterns |-> RateLimitPatterns],
       [code |-> "BAD_REQUEST", patterns |-> BadRequestPatterns],
       [code |-> "SERVER_ERROR", patterns |-> ServerErrorPatterns],
       [code |-> "NETWORK_ERROR", patterns |-> NetworkPatterns] >>

\* The kinds whose patterns the text matches, as positions in the order.
MatchingKinds(text) ==
    {i \in 1..Len(KindPriority) : IncludesAny(ToLowerCase(text), KindPriority[i].patterns)}

\* The kind earliest in the order among those the text matches.
EarliestKind(text) ==
    IF MatchingKinds(text) = {} THEN "UNKNOWN"
    ELSE KindPriority[CHOOSE i \in MatchingKinds(text) :
                         \A j \in MatchingKinds(text) : i <= j].code

\* C14: for an Error, parseApiError returns the kind earliest in the order
\* Unauthorized, NotFound, RateLimited, BadRequest, ServerError,
\* NetworkError among those whose patterns its message matches, Unknown
\* when it matches none, and the result is retryable exactly for
\* RateLimited, ServerError and NetworkError.
C14_FirstMatchInPriorityOrder ==
    (op.name = "parseApiError" /\ op.error.type = "Error") =>
        /\ ret.error.code = EarliestKind(op.error.message)
        /\ ret.error.isRetryable <=> (ret.error.code \in RetryableKinds)

C14_Witness ==
    /\ op.name = "parseApiError"
    /\ op.error = ErrorOf(<<"5", "0", "3", " ", "4", "0", "1">>)
    /\ Cardinality(MatchingKinds(op.error.message)) = 2
    /\ ret.error.code = "UNAUTHORIZED"
    /\ ~ret.error.isRetryable

NotAnError(thrown) == thrown.type \in {"string", "undefined"}

\* C15 as stated: a thrown value that is not an Error is classified by its
\* string form under the same priority rules as an Error's message.
C15_StringFormClassified ==
    (op.name = "parseApiError" /\ NotAnError(op.error)) =>
        /\ ret.error.code = EarliestKind(StringOf(op.error))
        /\ ret.error.isRetryable <=> (ret.error.code \in RetryableKinds)

\* C15 amended: a thrown value that is not an Error is classified Unknown
\* and not retryable whatever its string form contains, and the message
\* of the result is the context followed by that string form.
C15_NonErrorIsUnknown ==
    (op.name = "parseApiError" /\ NotAnError(op.error)) =>
        /\ ret.error.code = "UNKNOWN"
        /\ ~ret.error.isRetryable
        /\ "statusCode" \notin DOMAIN ret.error
        /\ ret.error.context = op.context
        /\ ret.error.message =
              [text |-> "{context}: {message}", context |-> op.context,
               message |-> IF op.error.type = "string" THEN op.error.text
                           ELSE <<"u", "n", "d", "e", "f", "i", "n", "e", "d">>]

C15_Witness ==
    /\ op.name = "parseApiError"
    /\ op.error = StringThrown(<<"5", "0", "3">>)
    /\ EarliestKind(op.error.text) = "SERVER_ERROR"
    /\ ret.error.code = "UNKNOWN"
    /\ ~ret.error.isRetryable

\* C16: parseApiError applied to an error it returned, under any context,
\* returns that error unchanged: code, statusCode, isRetryable, message and
\* the context it was first given.
C16_ClassifyIdempotent ==
    [][(/\ op.name = "parseApiError"
        /\ op'.name = "parseApiError"
        /\ op'.error = Classified(ret.error))
          => /\ ret'.error = ret.error
             /\ ret'.error.context = op.context \/ op.error.type = "QStashError"]_vars

C16_Witness ==
    /\ op.name = "parseApiError"
    /\ op.error.type = "QStashError"
    /\ ret.error = op.error.error
    /\ ret.error.code = "SERVER_ERROR"
    /\ ret.error.statusCode = 503
    /\ ret.error.context = RetryCheckContext
    /\ op.context # RetryCheckContext

\* The '429 ... retry after 30 seconds' failure.
RateLimitedFor30 ==
    ErrorOf(<<"4", "2", "9", " ">>
            \o <<"r", "e", "t", "r", "y", " ", "a", "f", "t", "e", "r", " ", "3", "0", " ",
                 "s", "e", "c", "o", "n", "d", "s">>)

\* C31: two classifications of the same failure, whatever the two context
\* arguments ('retry-check' of the retry loop and the full context of
\* execute among them), give the same kind, statusCode and isRetryable; and
\* '429 retry after 30 seconds' is RateLimited with retryAfter 30 under
\* every context.
C31_ContextIndependent ==
    [][op'.name = "parseApiError" =>
          /\ (op.name = "parseApiError" /\ op'.error = op.error) =>
                /\ ret'.error.code = ret.error.code
                /\ ret'.error.isRetryable = ret.error.isRetryable
                /\ ("statusCode" \in DOMAIN ret'.error) = ("statusCode" \in DOMAIN ret.error)
                /\ "statusCode" \in DOMAIN ret.error =>
                      ret'.error.statusCode = ret.error.statusCode
          /\ op'.error = RateLimitedFor30 =>
                /\ ret'.error.code = "RATE_LIMITED"
                /\ ret'.error.isRetryable
                /\ ret'.error.retryAfter = 30]_vars

C31_Witness ==
    /\ op.name = "parseApiError"
    /\ op.error = RateLimitedFor30
    /\ op.context = RetryCheckContext
    /\ ret.error.code = "RATE_LIMITED"
    /\ ret.error.statusCode = 429
    /\ ret.error.retryAfter = 30

====
